---- MODULE Spec2Model ----
(***************************************************************************)
(* Retry-with-backoff (withRetry) and paginated holder collection          *)
(* (fetchAllTokenHolders) of server/services/tokenHolders.js.              *)
(*                                                                         *)
(* JavaScript numbers are modelled as exact rationals (the rounding of     *)
(* IEEE doubles is left out):                                              *)
(*   - a factor (backoffFactor, jitterFactor, Math.random()) is a pair     *)
(*     <<numerator, denominator>>; an option the caller left out           *)
(*     (undefined) is the empty tuple <<>>;                                *)
(*   - currentDelay is a fixed-point integer counting 1/Unit milliseconds, *)
(*     Unit a power of two large enough for every halving that the         *)
(*     factors backoffFactor + 0.5 * k can introduce;                      *)
(*   - a value handed to delay() is [nan, ms]: nan is TRUE when the        *)
(*     arithmetic produced NaN (an operand was undefined).                 *)
(***************************************************************************)
EXTENDS Integers, Sequences, FiniteSets, TLC

VARIABLES
    \* ---- withRetry (tokenHolders.js:32-103) ----
    options,                \* the options object of the running withRetry call
    attempt,                \* loop variable "attempt"
    currentDelay,           \* "currentDelay", in 1/Unit ms
    consecutiveRateLimits,  \* "consecutiveRateLimits"
    lastError,              \* "lastError"
    rpc,                    \* position inside withRetry
    outcome,                \* value returned / error raised by withRetry
    \* ---- observation of one withRetry call ----
    calls,                  \* number of times fn() has been invoked
    sleeps,                 \* number of delay() calls made by withRetry
    lastSleep,              \* the value handed to the latest delay() call
    failures,               \* per failed attempt: TRUE iff classified rate limit
    \* ---- the caller ----
    caller,                 \* who called withRetry: "direct", "basic", "pages", "fallback"
    \* ---- fetchAllTokenHolders (tokenHolders.js:117-554) ----
    env,                    \* process.env / DEBUG and the validity of tokenAddress
    holderOptions,          \* the options object of fetchAllTokenHolders
    page,                   \* "page"
    hasMorePages,           \* "hasMorePages"
    allHolders,             \* "allHolders", a Set of owners
    allAccounts,            \* "allAccounts", in arrival order
    totalTokenSupply,       \* "totalTokenSupply"
    hpc,                    \* position inside fetchAllTokenHolders
    result,                 \* the envelope fetchAllTokenHolders returned
    \* ---- observation of one fetchAllTokenHolders call ----
    outstanding,            \* page requests sent and not yet answered
    lastRequested,          \* page number of the latest page request, 0 = none
    requests,               \* page requests sent so far, where they are counted
    obtained,               \* the page responses received, in order
    pauses,                 \* number of pacing delay() calls between pages
    lastPause,              \* the value handed to the latest pacing delay()
    \* ---- one application of a function without side effects ----
    fn,                     \* the function applied, "none" when there is none
    input,                  \* its arguments
    output,                 \* what it returned
    applied,                \* TRUE once it has returned
    \* ---- analyzeOnChainMetrics (onChainMetrics.js:167-198) ----
    sub,                    \* per sub-analysis: the state of its promise
    mpc,                    \* position inside analyzeOnChainMetrics
    metrics,                \* the object analyzeOnChainMetrics returned
    asked,                  \* analyzeLiquidityMetrics: the sources queried so far, in
                            \* order, with what each answered
    \* ---- ResearchBot.processInitialQuery (researchBot.js:769-1022) ----
    agent,                  \* the AgentState objects made so far, by the call that made them
    session,                \* per call: the session_id of its request, "" before it
                            \* is received
    thisState,              \* per bot, under the session_id that holds it: the
                            \* AgentState its this.state refers to, 0 = null
    call,                   \* per call: its position, what it awaits, what it returned
    adapterCalls,           \* per call: its query, the adapters it started, what it
                            \* gave them, and the adapters it saw settle
    \* ---- the routes (routes/api.js:7-103) ----
    botInstances,           \* per session_id: the bot held under it, 0 = no entry
    bots,                   \* the ResearchBot objects made so far: their this.state
    pending,                \* the requests received so far, in order: what they carry,
                            \* the bot they got, where their handler stands, the
                            \* response sent
    analyzed                \* per session_id: whether an analyze request for it has
                            \* been received since its entry was last deleted

retryVars == <<options, attempt, currentDelay, consecutiveRateLimits, lastError,
               rpc, outcome, calls, sleeps, lastSleep, failures>>

holderVars == <<env, holderOptions, page, hasMorePages, allHolders, allAccounts,
                totalTokenSupply, hpc, result, obtained, pauses, lastPause>>

requestVars == <<outstanding, lastRequested, requests>>

functionVars == <<fn, input, output, applied>>

metricsVars == <<sub, mpc, metrics, asked>>

botVars == <<agent, session, thisState, call, adapterCalls>>

apiVars == <<botInstances, bots, pending, analyzed>>

tokenHolderVars == <<retryVars, caller, holderVars, requestVars>>

\* what the steps of one component leave alone: the state of the others
otherVars == <<functionVars, metricsVars, botVars, apiVars>>
exceptFunctionVars == <<tokenHolderVars, metricsVars, botVars, apiVars>>
exceptMetricsVars == <<tokenHolderVars, functionVars, botVars, apiVars>>
exceptBotVars == <<tokenHolderVars, functionVars, metricsVars, apiVars>>
exceptApiVars == <<tokenHolderVars, functionVars, metricsVars, botVars>>

vars == <<tokenHolderVars, functionVars, metricsVars, botVars, apiVars>>

----------------------------------------------------------------------------
(* Numbers *)

Undefined == <<>>

Min(a, b) == IF a <= b THEN a ELSE b
Max(a, b) == IF a >= b THEN a ELSE b

MaxOf(S) == CHOOSE x \in S : \A y \in S : y <= x

RECURSIVE Pow2(_)
Pow2(n) == IF n = 0 THEN 1 ELSE 2 * Pow2(n - 1)

NaN == [nan |-> TRUE, ms |-> 0]
Num(v) == [nan |-> FALSE, ms |-> v]

----------------------------------------------------------------------------
(* Retry policies: the literal option objects of the source, and small     *)
(* policies for direct calls of the exported function.                     *)

\* tokenHolders.js:34-40, the default parameter value
DefaultOptions ==
    [maxRetries |-> 5, initialDelayMs |-> 2000, maxDelayMs |-> 60000,
     backoffFactor |-> <<5, 2>>, jitterFactor |-> <<1, 5>>]

\* tokenHolders.js:211-216, basic mode
BasicModeOptions ==
    [maxRetries |-> 4, initialDelayMs |-> 3000, maxDelayMs |-> 60000,
     backoffFactor |-> <<5, 2>>, jitterFactor |-> Undefined]

\* tokenHolders.js:365-370, one page of the pagination loop
PageOptions ==
    [maxRetries |-> 5, initialDelayMs |-> 3000, maxDelayMs |-> 60000,
     backoffFactor |-> <<5, 2>>, jitterFactor |-> Undefined]

\* tokenHolders.js:507-512, the RPC fallback
FallbackOptions ==
    [maxRetries |-> 3, initialDelayMs |-> 2000, maxDelayMs |-> 30000,
     backoffFactor |-> <<2, 1>>, jitterFactor |-> Undefined]

\* dexscreener.js:35-40
DexScreenerOptions ==
    [maxRetries |-> 3, initialDelayMs |-> 1000, maxDelayMs |-> 15000,
     backoffFactor |-> <<2, 1>>, jitterFactor |-> Undefined]

\* Other option objects a caller of the exported withRetry can pass.
SmallOptions ==
    { [maxRetries |-> 0, initialDelayMs |-> 1000, maxDelayMs |-> 5000,
       backoffFactor |-> <<2, 1>>, jitterFactor |-> <<1, 5>>],
      [maxRetries |-> 2, initialDelayMs |-> 1500, maxDelayMs |-> 4000,
       backoffFactor |-> <<3, 2>>, jitterFactor |-> <<1, 1>>],
      [maxRetries |-> 2, initialDelayMs |-> 200, maxDelayMs |-> 800,
       backoffFactor |-> <<2, 1>>, jitterFactor |-> <<1, 5>>] }

DirectOptions == {DefaultOptions, DexScreenerOptions} \cup SmallOptions

AllOptions == DirectOptions \cup {BasicModeOptions, PageOptions, FallbackOptions}

\* currentDelay counts 1/Unit ms; every failure can halve the granularity once.
Unit == Pow2(MaxOf({p.maxRetries : p \in AllOptions}) + 1)

\* Math.random() yields k/RandomSteps, 0 <= k < RandomSteps
RandomSteps == 4
RandomValues == { <<k, RandomSteps>> : k \in 0 .. RandomSteps - 1 }

----------------------------------------------------------------------------
(* Errors an attempt can fail with.  message / dataErrorMessage are the    *)
(* sets of markers the text contains; status 0 = no response attached.     *)

ErrorShapes ==
    { \* axios: "Request failed with status code 429"
      [message |-> {"429"}, status |-> 429, dataErrorCode |-> 0, dataErrorMessage |-> {}],
      \* a JSON-RPC error body that names the rate limit
      [message |-> {}, status |-> 400, dataErrorCode |-> 429, dataErrorMessage |-> {"Too many requests"}],
      \* a plain Error whose text says so
      [message |-> {"rate limit"}, status |-> 0, dataErrorCode |-> 0, dataErrorMessage |-> {}],
      \* axios: "Request failed with status code 500"
      [message |-> {}, status |-> 500, dataErrorCode |-> 0, dataErrorMessage |-> {}],
      \* the Error fn itself throws about the shape of what arrived: 'Empty
      \* response from Helius API' (tokenHolders.js:206, 359), 'Invalid response
      \* format from DexScreener API' (dexscreener.js:31)
      [message |-> {"response"}, status |-> 0, dataErrorCode |-> 0, dataErrorMessage |-> {}] }

\* an error object: its shape, who created it, and during which attempt
ErrorOf(shape, by, n) == [shape |-> shape, by |-> by, attempt |-> n]

NoError == [shape |-> Undefined, by |-> "none", attempt |-> 0]

\* tokenHolders.js:97  new Error(`Rate limit persists after ${maxRetries} retries. ...`)
RateLimitPersists(n) ==
    ErrorOf([message |-> {"Rate limit persists"}, status |-> 0, dataErrorCode |-> 0,
             dataErrorMessage |-> {}], "withRetry", n)

\* tokenHolders.js:62-68
isRateLimit(error) ==
    \/ "429" \in error.shape.message
    \/ "rate limit" \in error.shape.message
    \/ error.shape.status = 429
    \/ error.shape.dataErrorCode = 429
    \/ "rate limit" \in error.shape.dataErrorMessage
    \/ "Too many requests" \in error.shape.dataErrorMessage

----------------------------------------------------------------------------
(* withRetry, tokenHolders.js:32-103 *)

RECURSIVE GCD(_, _)
GCD(a, b) == IF b = 0 THEN a ELSE GCD(b, a % b)

Reduce(q) == LET g == GCD(q[1], q[2]) IN <<q[1] \div g, q[2] \div g>>

\* factor + k * 0.5
PlusHalves(factor, k) == Reduce(<<2 * factor[1] + k * factor[2], 2 * factor[2]>>)

\* d * factor, d in 1/Unit ms
Times(d, factor) == (d * factor[1]) \div factor[2]

\* line 46: the loop condition
LoopContinues(att, opts) == att <= opts.maxRetries

\* lines 50-51: Math.max(1000, Math.floor(currentDelay + jitter)), with
\* jitter = options.jitterFactor * currentDelay * (Math.random() - 0.5).
\* undefined * number is NaN; NaN survives +, Math.floor and Math.max.
DelayWithJitter(d, opts, random) ==
    IF opts.jitterFactor = Undefined
    THEN NaN
    ELSE LET jf == opts.jitterFactor
             num == jf[2] * 2 * random[2] + jf[1] * (2 * random[1] - random[2])
             den == jf[2] * 2 * random[2]
         IN  Num(Max(1000, (d * num) \div (den * Unit)))

RateLimitDelayUncapped(d, opts, k) ==
    Times(d, PlusHalves(opts.backoffFactor, k))

\* lines 74-77: the delay after the rate-limit failure that made the counter k
RateLimitDelay(d, opts, k) ==
    Min(Times(d, PlusHalves(opts.backoffFactor, k)), opts.maxDelayMs * Unit)

\* lines 82-85: the delay after any other failure
StandardDelay(d, opts) ==
    Min(Times(d, opts.backoffFactor), opts.maxDelayMs * Unit)

CountConsecutiveOnly(k, rateLimited) == IF rateLimited THEN k + 1 ELSE 0

\* lines 70-71: the counter after a failure
CountRateLimit(k, rateLimited) == IF rateLimited THEN k + 1 ELSE k

ExhaustedOneEarly(att, opts) == att + 1 >= opts.maxRetries

\* lines 90 and 96: "attempt >= options.maxRetries"
Exhausted(att, opts) == att >= opts.maxRetries

ThrownAlwaysReplaced(error, rateLimited, opts) ==
    RateLimitPersists(opts.maxRetries)

ThrownAlwaysLastError(error, rateLimited, opts) == error

\* lines 91 and 97: what the catch block throws once the attempts are spent
ThrownWhenExhausted(error, rateLimited, opts) ==
    IF rateLimited THEN RateLimitPersists(opts.maxRetries) ELSE error

\* lines 42-44: the locals of a fresh call
EnterWithRetry(opts) ==
    /\ options' = opts
    /\ attempt' = 0
    /\ currentDelay' = opts.initialDelayMs * Unit
    /\ consecutiveRateLimits' = 0
    /\ lastError' = NoError
    /\ rpc' = "top"
    /\ outcome' = [kind |-> "pending", value |-> Undefined, error |-> NoError]
    /\ calls' = 0
    /\ sleeps' = 0
    /\ lastSleep' = Num(0)
    /\ failures' = <<>>

IsRetryAlways(att) == TRUE

\* line 48: every attempt but the first is a retry
IsRetry(att) == att > 0

\* lines 48-55: the sleep before a retry
RetrySleep ==
    /\ rpc = "top"
    /\ IsRetry(attempt)
    /\ \E random \in RandomValues :
           lastSleep' = DelayWithJitter(currentDelay, options, random)
    /\ sleeps' = sleeps + 1
    /\ rpc' = "ready"
    /\ UNCHANGED <<options, attempt, currentDelay, consecutiveRateLimits, lastError,
                   outcome, calls, failures>>

\* line 57: fn() is called
Invoke ==
    /\ \/ rpc = "top" /\ ~IsRetry(attempt)
       \/ rpc = "ready"
    /\ calls' = calls + 1
    /\ rpc' = "calling"
    /\ UNCHANGED <<options, attempt, currentDelay, consecutiveRateLimits, lastError,
                   outcome, sleeps, lastSleep, failures>>

\* line 57: fn() resolves with value v and withRetry returns it
Returns(v) ==
    /\ rpc = "calling"
    /\ rpc' = "returned"
    /\ outcome' = [kind |-> "returned", value |-> v, error |-> NoError]
    /\ UNCHANGED <<options, attempt, currentDelay, consecutiveRateLimits, lastError,
                   calls, sleeps, lastSleep, failures>>

\* lines 58-99 (and 46, 102): fn() rejects with an error of the given shape
Catch(shape) ==
    LET error == ErrorOf(shape, "operation", attempt)
        rl    == isRateLimit(error)
        k     == CountRateLimit(consecutiveRateLimits, rl)
        throws == Exhausted(attempt, options)
    IN  /\ rpc = "calling"
        /\ lastError' = error
        /\ consecutiveRateLimits' = k
        /\ currentDelay' = IF rl THEN RateLimitDelay(currentDelay, options, k)
                                 ELSE StandardDelay(currentDelay, options)
        /\ failures' = Append(failures, rl)
        /\ IF throws
           THEN /\ rpc' = "threw"
                /\ outcome' = [kind |-> "threw", value |-> Undefined,
                               error |-> ThrownWhenExhausted(error, rl, options)]
                /\ UNCHANGED attempt
           ELSE /\ attempt' = attempt + 1
                /\ IF LoopContinues(attempt + 1, options)
                   THEN /\ rpc' = "top"
                        /\ UNCHANGED outcome
                   ELSE \* line 102: throw lastError
                        /\ rpc' = "threw"
                        /\ outcome' = [kind |-> "threw", value |-> Undefined,
                                       error |-> error]
        /\ UNCHANGED <<options, calls, sleeps, lastSleep>>

----------------------------------------------------------------------------
(* fetchAllTokenHolders, tokenHolders.js:117-554.  The mock files of the   *)
(* development setup (USE_MOCKS) are switched off.                         *)

\* a full page can come back for pages 1 .. MaxUpstreamPages only
MaxUpstreamPages == 3

\* the page size of the small option objects
SmallPageSize == 2

\* onChainMetrics.js:61-65: analyzeWhaleActivity leaves delayBetweenPages out
WhaleOptions == [pageSize |-> 20, maxPages |-> 3, delayBetweenPages |-> Undefined]

\* tokenHolders.js:607-613: analyzeTokenHolderDistribution without fetchFullList
BasicOptions == [pageSize |-> 10, maxPages |-> 1, delayBetweenPages |-> <<3000>>]

HolderOptionSets ==
    { WhaleOptions, BasicOptions,
      [pageSize |-> SmallPageSize, maxPages |-> 0, delayBetweenPages |-> <<2000>>],
      [pageSize |-> SmallPageSize, maxPages |-> 2, delayBetweenPages |-> <<2000>>],
      [pageSize |-> 11, maxPages |-> 1, delayBetweenPages |-> <<2000>>] }

Environments ==
    [HELIUS_API_KEY : BOOLEAN, DEBUG : BOOLEAN, validAddress : BOOLEAN]

\* one element of result.token_accounts; owner "" = missing, amount 0 = missing
Account(owner, address, amount) ==
    [owner |-> owner, address |-> address, amount |-> amount]

FullPageA(n) ==
    [i \in 1 .. n |-> IF i % 2 = 1 THEN Account("ownerA", "accA", 5)
                                   ELSE Account("ownerB", "accB", 5)]

FullPageB(n) ==
    [i \in 1 .. n |-> IF i = 1 THEN Account("", "accX", 3)
                               ELSE Account("ownerC", "accC", 1)]

\* the token_accounts arrays the upstream can answer a request of `limit` with
FullPages(limit) == {FullPageA(limit), FullPageB(limit)}
ShortPages(limit) ==
    {SubSeq(FullPageA(limit), 1, limit - 1), SubSeq(FullPageB(limit), 1, 1)}
EmptyPage == <<>>

\* res.data of an answered request
Response(hasResult, isArray, accounts) ==
    [hasResult |-> hasResult, isArray |-> isArray, token_accounts |-> accounts]

PageResponses(pg, limit) ==
    { Response(TRUE, TRUE, a) :
        a \in (IF pg <= MaxUpstreamPages THEN FullPages(limit) ELSE {})
              \cup ShortPages(limit) \cup {EmptyPage} }
    \cup {Response(FALSE, FALSE, <<>>), Response(TRUE, FALSE, <<>>)}

\* what the collector saw of one answered page request
Answer(pg, resp) ==
    [page |-> pg, valid |-> resp.hasResult /\ resp.isArray,
     accounts |-> resp.token_accounts]

BasicModeIgnored(opts) == FALSE

\* lines 160 and 306
BasicMode(opts) == opts.maxPages = 1 /\ opts.pageSize <= 10

PageLimitIgnored(pg, opts) == FALSE

PageLimitReachedOneEarly(pg, opts) == opts.maxPages > 0 /\ pg >= opts.maxPages

\* line 317
PageLimitReached(pg, opts) == opts.maxPages > 0 /\ pg > opts.maxPages

\* lines 373 and 384: the two structure checks after withRetry returned
ValidStructure(resp) == resp.hasResult /\ resp.isArray

HasOwnerAlways(account) == TRUE

\* line 399: accounts without owner are skipped
HasOwner(account) == account.owner # ""

Counted(accounts) == SelectSeq(accounts, HasOwner)

\* lines 405-410
Stored(account) ==
    [owner |-> account.owner, address |-> account.address,
     amount |-> account.amount, decimals |-> 6]

RECURSIVE SumAmounts(_)
SumAmounts(accounts) ==
    IF accounts = <<>> THEN 0
    ELSE Head(accounts).amount + SumAmounts(Tail(accounts))

\* lines 398-419: the accumulators after one page
HoldersAfter(holders, accounts) ==
    holders \cup {Counted(accounts)[i].owner : i \in 1 .. Len(Counted(accounts))}
AccountsAfter(accs, accounts) ==
    accs \o [i \in 1 .. Len(Counted(accounts)) |-> Stored(Counted(accounts)[i])]
SupplyAfter(supply, accounts) == supply + SumAmounts(Counted(accounts))

LastPageNever(accounts, opts) == FALSE

\* line 422: fewer results than requested means last page
LastPage(accounts, opts) == Len(accounts) < opts.pageSize

\* lines 435-445: holderBalances[owner], the sum of parseFloat(amount) || 0
RECURSIVE BalanceOf(_, _)
BalanceOf(owner, accs) ==
    IF accs = <<>> THEN 0
    ELSE (IF Head(accs).owner = owner THEN Head(accs).amount ELSE 0)
         + BalanceOf(owner, Tail(accs))

\* the keys of holderBalances, in insertion order (Object.entries, line 448)
RECURSIVE OwnersInOrder(_, _)
OwnersInOrder(accs, seen) ==
    IF accs = <<>> THEN <<>>
    ELSE IF Head(accs).owner \in seen
         THEN OwnersInOrder(Tail(accs), seen)
         ELSE <<Head(accs).owner>>
              \o OwnersInOrder(Tail(accs), seen \cup {Head(accs).owner})

\* line 449
HolderEntries(accs) ==
    LET owners == OwnersInOrder(accs, {})
    IN  [i \in 1 .. Len(owners) |->
            [owner |-> owners[i], balance |-> BalanceOf(owners[i], accs)]]

RECURSIVE InsertBeforeEqual(_, _)
InsertBeforeEqual(sorted, entry) ==
    IF sorted = <<>> THEN <<entry>>
    ELSE IF Head(sorted).balance > entry.balance
         THEN <<Head(sorted)>> \o InsertBeforeEqual(Tail(sorted), entry)
         ELSE <<entry>> \o sorted

\* line 450: Array.prototype.sort with (a, b) => b.balance - a.balance is a
\* stable sort into descending balance
RECURSIVE InsertByBalance(_, _)
InsertByBalance(sorted, entry) ==
    IF sorted = <<>> THEN <<entry>>
    ELSE IF Head(sorted).balance >= entry.balance
         THEN <<Head(sorted)>> \o InsertByBalance(Tail(sorted), entry)
         ELSE <<entry>> \o sorted

RECURSIVE SortByBalance(_)
SortByBalance(entries) ==
    IF entries = <<>> THEN <<>>
    ELSE InsertByBalance(SortByBalance(SubSeq(entries, 1, Len(entries) - 1)),
                         entries[Len(entries)])

\* lines 453 and 283: sortedHolders.slice(0, Math.min(10, sortedHolders.length))
TopHolders(accs) ==
    LET sorted == SortByBalance(HolderEntries(accs))
    IN  SubSeq(sorted, 1, Min(10, Len(sorted)))

RECURSIVE SumBalances(_)
SumBalances(entries) ==
    IF entries = <<>> THEN 0
    ELSE Head(entries).balance + SumBalances(Tail(entries))

\* lines 454-456 and 463: the percentage rounded to two decimals, in hundredths
Top10Concentration(accs, supply) ==
    IF supply > 0
    THEN (2 * 10000 * SumBalances(TopHolders(accs)) + supply) \div (2 * supply)
    ELSE 0

InRangeAboveMin(balance, supply, range) ==
    /\ range.min = 0 \/ supply = 0 \/ balance * range.min > supply
    /\ range.max = 0 \/ supply = 0 \/ balance * range.max < supply

\* lines 562-585: calculateHolderDistribution; a bound that is missing or 0 is
\* falsy and is not tested, the first range that matches counts the holder
InRange(balance, supply, range) ==
    /\ range.min = 0 \/ supply = 0 \/ balance * range.min >= supply
    /\ range.max = 0 \/ supply = 0 \/ balance * range.max < supply

\* min and max as the divisor n of totalSupply / n, 0 = no such bound
Ranges ==
    << [name |-> "Whales (>1%)", min |-> 100, max |-> 0],
       [name |-> "Large (0.1-1%)", min |-> 1000, max |-> 100],
       [name |-> "Medium (0.01-0.1%)", min |-> 10000, max |-> 1000],
       [name |-> "Small (<0.01%)", min |-> 0, max |-> 10000] >>

RangeOf(balance, supply) ==
    LET matching == {i \in 1 .. Len(Ranges) : InRange(balance, supply, Ranges[i])}
    IN  IF matching = {} THEN 0 ELSE CHOOSE i \in matching : \A j \in matching : i <= j

calculateHolderDistribution(entries, supply) ==
    [i \in 1 .. Len(Ranges) |->
        [name |-> Ranges[i].name,
         count |-> Cardinality({e \in 1 .. Len(entries) :
                                   RangeOf(entries[e].balance, supply) = i})]]

\* lines 458-466
HoldersData(holders, accs, supply) ==
    [success |-> TRUE,
     unique_holder_count |-> Cardinality(holders),
     token_accounts_count |-> Len(accs),
     top_holders |-> TopHolders(accs),
     top10_concentration_percent |-> Top10Concentration(accs, supply),
     holders_by_balance_range |->
         calculateHolderDistribution(HolderEntries(accs), supply),
     data_source |-> "helius_paginated"]

\* lines 279-285
BasicData(holders, accs) ==
    [success |-> TRUE,
     unique_holder_count |-> Cardinality(holders),
     token_accounts_count |-> Len(accs),
     top_holders |-> TopHolders(accs),
     data_source |-> "helius_basic"]

\* lines 516-526
FallbackData(n) ==
    [success |-> TRUE,
     unique_holder_count |-> n,
     token_accounts_count |-> n,
     top_holders |-> [i \in 1 .. n |-> [owner |-> "unknown"]],
     data_source |-> "solana_rpc_fallback"]

FailedDataWithoutCounts(message, holders, accs) ==
    [success |-> FALSE,
     error |-> message,
     unique_holder_count |-> 0,
     token_accounts_count |-> 0,
     top_holders |-> "null",
     data_source |-> "failed_with_partial_data"]

\* lines 545-552
FailedData(message, holders, accs) ==
    [success |-> FALSE,
     error |-> message,
     unique_holder_count |-> Cardinality(holders),
     token_accounts_count |-> Len(accs),
     top_holders |-> IF Cardinality(holders) > 0 THEN "[]" ELSE "null",
     data_source |-> "failed_with_partial_data"]

MissingKeyReportedAsSuccess ==
    [success |-> TRUE, error |-> "HELIUS_API_KEY is required for this operation"]

\* lines 129-132
MissingKey ==
    [success |-> FALSE, error |-> "HELIUS_API_KEY is required for this operation"]

NotReturned == [pending |-> TRUE]

Finish(envelope) ==
    /\ hpc' = "done"
    /\ result' = envelope

\* lines 495-552 outside basic mode: the envelope built from what was collected
FailWithPartialData(message) ==
    /\ Finish(FailedData(message, allHolders, allAccounts))
    /\ UNCHANGED <<page, hasMorePages, allHolders, allAccounts, totalTokenSupply,
                   pauses, lastPause>>

\* lines 117-157 and the first pass of line 316-329
CalledWith(e, opts) ==
    /\ UNCHANGED otherVars
    /\ caller = "none"
    /\ env' = e
    /\ holderOptions' = opts
    /\ page' = 1
    /\ hasMorePages' = TRUE
    /\ allHolders' = {}
    /\ allAccounts' = <<>>
    /\ totalTokenSupply' = 0
    /\ UNCHANGED <<obtained, pauses, lastPause, requestVars>>
    /\ IF ~e.HELIUS_API_KEY
       THEN /\ Finish(MissingKey)
            /\ caller' = "holders"
            /\ UNCHANGED retryVars
       ELSE IF ~e.validAddress
       THEN \* new PublicKey throws, here and again in the fallback (line 502)
            /\ Finish(FailedData("Invalid public key input", {}, <<>>))
            /\ caller' = "holders"
            /\ UNCHANGED retryVars
       ELSE IF BasicMode(opts)
       THEN IF e.DEBUG
            THEN /\ hpc' = "basicDelay"
                 /\ caller' = "holders"
                 /\ UNCHANGED <<retryVars, result>>
            ELSE /\ hpc' = "basicFetch"
                 /\ caller' = "basic"
                 /\ EnterWithRetry(BasicModeOptions)
                 /\ UNCHANGED result
       ELSE /\ hpc' = "fetching"
            /\ caller' = "pages"
            /\ EnterWithRetry(PageOptions)
            /\ UNCHANGED result

FetchAllTokenHolders ==
    \E e \in Environments, opts \in HolderOptionSets : CalledWith(e, opts)

\* a call that pages through the holders up to a page limit, in the
\* environment the service starts in
FetchAllPages ==
    \E opts \in {o \in HolderOptionSets : ~BasicMode(o) /\ o.maxPages \in {1, 2}} :
        CalledWith(env, opts)

\* lines 165-170: the development delay is over
BasicDelayDone ==
    /\ UNCHANGED otherVars
    /\ hpc = "basicDelay"
    /\ hpc' = "basicFetch"
    /\ caller' = "basic"
    /\ EnterWithRetry(BasicModeOptions)
    /\ UNCHANGED <<env, holderOptions, page, hasMorePages, allHolders, allAccounts,
                   totalTokenSupply, result, obtained, pauses, lastPause, requestVars>>

\* retry sleep of whichever withRetry call is running
Sleep ==
    /\ UNCHANGED otherVars
    /\ RetrySleep
    /\ UNCHANGED <<caller, holderVars, requestVars>>

\* fn() is called: for a page fetch this sends the request for `page`
Send ==
    /\ UNCHANGED otherVars
    /\ Invoke
    /\ IF caller \in {"basic", "pages"}
       THEN /\ outstanding' = outstanding + 1
            /\ lastRequested' = page
       ELSE UNCHANGED <<outstanding, lastRequested>>
    /\ UNCHANGED <<caller, holderVars>>

SendRequest ==
    /\ Send
    /\ UNCHANGED requests

\* the same step, the request counted
SendCountedRequest ==
    /\ Send
    /\ requests' = requests + 1

\* lines 372-429 and back to 316-327: a page request is answered
PageReturns ==
    /\ UNCHANGED otherVars
    /\ caller = "pages"
    /\ \E resp \in PageResponses(page, holderOptions.pageSize) :
        LET accounts == resp.token_accounts IN
        /\ Returns(resp)
        /\ outstanding' = outstanding - 1
        /\ obtained' = Append(obtained, Answer(page, resp))
        /\ UNCHANGED <<env, holderOptions, lastRequested, requests>>
        /\ IF ~ValidStructure(resp)
           THEN /\ FailWithPartialData("Invalid response structure from Helius API")
                /\ caller' = "holders"
           ELSE IF Len(accounts) = 0
           THEN /\ hasMorePages' = FALSE
                /\ Finish(HoldersData(allHolders, allAccounts, totalTokenSupply))
                /\ caller' = "holders"
                /\ UNCHANGED <<page, allHolders, allAccounts, totalTokenSupply,
                               pauses, lastPause>>
           ELSE /\ allHolders' = HoldersAfter(allHolders, accounts)
                /\ allAccounts' = AccountsAfter(allAccounts, accounts)
                /\ totalTokenSupply' = SupplyAfter(totalTokenSupply, accounts)
                /\ IF LastPage(accounts, holderOptions)
                   THEN /\ hasMorePages' = FALSE
                        /\ Finish(HoldersData(allHolders', allAccounts', totalTokenSupply'))
                        /\ caller' = "holders"
                        /\ UNCHANGED <<page, pauses, lastPause>>
                   ELSE /\ page' = page + 1
                        /\ UNCHANGED hasMorePages
                        /\ IF PageLimitReached(page + 1, holderOptions)
                           THEN /\ Finish(HoldersData(allHolders', allAccounts', totalTokenSupply'))
                                /\ caller' = "holders"
                                /\ UNCHANGED <<pauses, lastPause>>
                           ELSE /\ hpc' = "pacing"
                                /\ caller' = "holders"
                                /\ pauses' = pauses + 1
                                /\ lastPause' = holderOptions.delayBetweenPages
                                /\ UNCHANGED result

\* lines 325-329: the pacing delay is over, the next page is fetched
PacingDone ==
    /\ UNCHANGED otherVars
    /\ hpc = "pacing"
    /\ hpc' = "fetching"
    /\ caller' = "pages"
    /\ EnterWithRetry(PageOptions)
    /\ UNCHANGED <<env, holderOptions, page, hasMorePages, allHolders, allAccounts,
                   totalTokenSupply, result, obtained, pauses, lastPause, requestVars>>

\* a page request fails; once withRetry gives up the catch of line 495 runs
PageFails ==
    /\ UNCHANGED otherVars
    /\ caller = "pages"
    /\ \E shape \in ErrorShapes : Catch(shape)
    /\ outstanding' = outstanding - 1
    /\ UNCHANGED <<env, holderOptions, lastRequested, requests, obtained>>
    /\ IF rpc' = "threw"
       THEN /\ FailWithPartialData(IF outcome'.error.by = "withRetry"
                                    THEN "Rate limit persists after retries"
                                    ELSE "Request failed")
            /\ caller' = "holders"
       ELSE UNCHANGED <<caller, page, hasMorePages, allHolders, allAccounts,
                        totalTokenSupply, hpc, result, pauses, lastPause>>

\* lines 299-309 and 495-512: basic mode gave up, the RPC fallback starts
StartFallback ==
    /\ hpc' = "fallback"
    /\ caller' = "fallback"
    /\ UNCHANGED result

\* lines 218-298: the basic-mode request is answered
BasicReturns ==
    /\ UNCHANGED otherVars
    /\ caller = "basic"
    /\ rpc = "calling"
    /\ \E resp \in PageResponses(1, holderOptions.pageSize) :
        LET accounts == resp.token_accounts IN
        /\ outstanding' = outstanding - 1
        /\ obtained' = Append(obtained, Answer(1, resp))
        /\ UNCHANGED <<env, holderOptions, lastRequested, requests, page, hasMorePages,
                       pauses, lastPause>>
        /\ IF ValidStructure(resp) /\ Len(accounts) > 0
           THEN /\ Returns(resp)
                /\ allHolders' = HoldersAfter(allHolders, accounts)
                /\ allAccounts' = AccountsAfter(allAccounts, accounts)
                /\ totalTokenSupply' = SupplyAfter(totalTokenSupply, accounts)
                /\ Finish(BasicData(allHolders', allAccounts'))
                /\ caller' = "holders"
           ELSE /\ EnterWithRetry(FallbackOptions)
                /\ StartFallback
                /\ UNCHANGED <<allHolders, allAccounts, totalTokenSupply>>

\* the basic-mode request fails
BasicFails ==
    /\ UNCHANGED otherVars
    /\ caller = "basic"
    /\ rpc = "calling"
    /\ outstanding' = outstanding - 1
    /\ UNCHANGED <<env, holderOptions, lastRequested, requests, obtained, page, hasMorePages,
                   allHolders, allAccounts, totalTokenSupply, pauses, lastPause>>
    /\ \E shape \in ErrorShapes :
        IF Exhausted(attempt, options)
        THEN /\ EnterWithRetry(FallbackOptions)
             /\ StartFallback
        ELSE /\ Catch(shape)
             /\ UNCHANGED <<caller, hpc, result>>

\* lines 505-538: connection.getTokenLargestAccounts answers with n accounts
FallbackReturns ==
    /\ UNCHANGED otherVars
    /\ caller = "fallback"
    /\ \E n \in {0, SmallPageSize} :
        /\ Returns(n)
        /\ Finish(FallbackData(n))
    /\ caller' = "holders"
    /\ UNCHANGED <<env, holderOptions, page, hasMorePages, allHolders, allAccounts,
                   totalTokenSupply, obtained, pauses, lastPause, requestVars>>

\* lines 539-552: the fallback fails too
FallbackFails ==
    /\ UNCHANGED otherVars
    /\ caller = "fallback"
    /\ \E shape \in ErrorShapes : Catch(shape)
    /\ UNCHANGED <<env, holderOptions, obtained, requestVars>>
    /\ IF rpc' = "threw"
       THEN /\ FailWithPartialData("Basic mode failed, trying fallback")
            /\ caller' = "holders"
       ELSE UNCHANGED <<caller, page, hasMorePages, allHolders, allAccounts,
                        totalTokenSupply, hpc, result, pauses, lastPause>>

----------------------------------------------------------------------------
(* A direct call of the exported withRetry (dexscreener.js:21-40 is one).  *)

DirectCall ==
    /\ UNCHANGED otherVars
    /\ caller = "none"
    /\ \E opts \in DirectOptions : EnterWithRetry(opts)
    /\ caller' = "direct"
    /\ UNCHANGED <<holderVars, requestVars>>

DirectReturns ==
    /\ UNCHANGED otherVars
    /\ caller = "direct"
    /\ Returns("value")
    /\ UNCHANGED <<caller, holderVars, requestVars>>

DirectFails ==
    /\ UNCHANGED otherVars
    /\ caller = "direct"
    /\ \E shape \in ErrorShapes : Catch(shape)
    /\ UNCHANGED <<caller, holderVars, requestVars>>

----------------------------------------------------------------------------

TokenHoldersInit ==
    /\ options = DefaultOptions
    /\ attempt = 0
    /\ currentDelay = 0
    /\ consecutiveRateLimits = 0
    /\ lastError = NoError
    /\ rpc = "idle"
    /\ outcome = [kind |-> "pending", value |-> Undefined, error |-> NoError]
    /\ calls = 0
    /\ sleeps = 0
    /\ lastSleep = Num(0)
    /\ failures = <<>>
    /\ caller = "none"
    /\ env = [HELIUS_API_KEY |-> TRUE, DEBUG |-> FALSE, validAddress |-> TRUE]
    /\ holderOptions = WhaleOptions
    /\ page = 1
    /\ hasMorePages = TRUE
    /\ allHolders = {}
    /\ allAccounts = <<>>
    /\ totalTokenSupply = 0
    /\ hpc = "idle"
    /\ result = NotReturned
    /\ outstanding = 0
    /\ lastRequested = 0
    /\ requests = 0
    /\ obtained = <<>>
    /\ pauses = 0
    /\ lastPause = Undefined

\* no function is being applied
NoFunction ==
    /\ fn = "none"
    /\ input = Undefined
    /\ output = Undefined
    /\ applied = FALSE

\* analyzeOnChainMetrics has not been called
SubAnalyses == {"transaction_patterns", "whale_activity", "liquidity_metrics"}
NoMetrics ==
    /\ sub = [s \in SubAnalyses |-> [status |-> "unstarted", value |-> NotReturned]]
    /\ mpc = "idle"
    /\ metrics = NotReturned
    /\ asked = <<>>

\* researchBot.js lines 59-67: the bots as their constructor leaves them, no
\* call of processInitialQuery made yet
Requests == {1, 2}
SessionIds == {"s1", "s2"}
Null == [is |-> "null"]
Rejection == [is |-> "rejected"]
NoBot ==
    /\ agent = [r \in Requests |-> Null]
    /\ session = [r \in Requests |-> ""]
    /\ thisState = [id \in SessionIds |-> 0]
    /\ call = [r \in Requests |-> [pc |-> "idle", target |-> 0, arg |-> Null, value |-> Null]]
    /\ adapterCalls = [r \in Requests |-> [query |-> Null, started |-> {}, completed |-> {}, given |-> {}]]

\* routes/api.js line 8: the session map is empty, no request received yet
ApiRequests == 1..3
NoRequest ==
    [kind |-> "none", session_id |-> "", carries |-> "", bot |-> 0, pc |-> "idle",
     status |-> 0, body |-> ""]
NoApi ==
    /\ botInstances = [id \in SessionIds |-> 0]
    /\ bots = <<>>
    /\ pending = [n \in ApiRequests |-> NoRequest]
    /\ analyzed = [id \in SessionIds |-> FALSE]

Init ==
    /\ TokenHoldersInit
    /\ NoFunction
    /\ NoMetrics
    /\ NoBot
    /\ NoApi

Next ==
    \/ DirectCall
    \/ DirectReturns
    \/ DirectFails
    \/ Sleep
    \/ SendRequest
    \/ FetchAllTokenHolders
    \/ BasicDelayDone
    \/ BasicReturns
    \/ BasicFails
    \/ FallbackReturns
    \/ FallbackFails
    \/ PageReturns
    \/ PacingDone
    \/ PageFails

Spec == Init /\ [][Next]_vars

\* Paged calls with every page request counted. A request is answered or
\* times out (axios timeout, line 355) and every timer fires, so a step that
\* can be taken is taken in the end.
PaginationNext ==
    \/ FetchAllPages
    \/ Sleep
    \/ SendCountedRequest
    \/ PageReturns
    \/ PacingDone
    \/ PageFails

Pagination == Init /\ [][PaginationNext]_vars /\ WF_vars(PaginationNext)

----------------------------------------------------------------------------
(* Properties of withRetry *)

Terminated == rpc \in {"returned", "threw"}
Raised == rpc = "threw"
LastFailure == failures[Len(failures)]
AllRateLimit(fs) == \A i \in 1 .. Len(fs) : fs[i]
RateLimitCount(fs) == Cardinality({i \in 1 .. Len(fs) : fs[i]})

\* C1: an operation that fails on every attempt has been invoked exactly
\* maxRetries + 1 times when withRetry raises, whatever the kinds of failure;
\* and it is never invoked more often than that.
C1_InvokedNPlusOneTimes ==
    /\ rpc # "idle" => calls <= options.maxRetries + 1
    /\ Raised => /\ calls = options.maxRetries + 1
                 /\ Len(failures) = calls

C1_Witness ==
    /\ Raised
    /\ options.maxRetries >= 2
    /\ \E i, j \in 1 .. Len(failures) : failures[i] /\ ~failures[j]

\* C2: no sleep precedes the first attempt, attempt number k > 1 is preceded
\* by exactly one sleep each (so k - 1 sleeps in all), and every sleep lasts at
\* least 1000 ms, for every option object, those without jitterFactor included.
C2_SleepOfAtLeast1000BeforeEachRetry ==
    /\ rpc \in {"calling", "returned", "threw"} => sleeps = calls - 1
    /\ sleeps > 0 => ~lastSleep.nan /\ lastSleep.ms >= 1000

\* lastSleep > maxDelayMs * (1 + jitterFactor); a comparison with NaN is false
ExceedsJitteredCap(s, opts) ==
    /\ ~s.nan
    /\ opts.jitterFactor # Undefined
    /\ s.ms * opts.jitterFactor[2] >
           opts.maxDelayMs * (opts.jitterFactor[2] + opts.jitterFactor[1])

\* the same with the 1000 ms floor of line 51 taken into account
ExceedsFlooredCap(s, opts) == ExceedsJitteredCap(s, opts) /\ s.ms > 1000

DelayNeverShrinks ==
    (Len(failures') = Len(failures) + 1 /\ AllRateLimit(failures'))
        => currentDelay' >= currentDelay

C4_OriginalErrorReraised ==
    (Raised /\ ~LastFailure) =>
        /\ outcome.kind = "threw"
        /\ outcome.error.by = "operation"
        /\ outcome.error.attempt = options.maxRetries
        /\ outcome.error = lastError
        /\ ~isRateLimit(outcome.error)

C4_Witness ==
    /\ Raised
    /\ ~LastFailure
    /\ \E i \in 1 .. Len(failures) : failures[i]

\* C5: when the last permitted attempt fails with a rate limit, withRetry raises
\* its own "Rate limit persists" error, not the error of the operation.
C5_RateLimitPersistsRaised ==
    (Raised /\ LastFailure) =>
        /\ outcome.kind = "threw"
        /\ outcome.error = RateLimitPersists(options.maxRetries)
        /\ outcome.error.by = "withRetry"
        /\ outcome.error # lastError
        /\ lastError.by = "operation"

C5_Witness ==
    /\ Raised
    /\ LastFailure
    /\ \E i \in 1 .. Len(failures) : ~failures[i]

\* the delay the claim prescribes after the failures fs, from delay d and with
\* k rate limits counted before them
RECURSIVE DelayAfter(_, _, _, _)
DelayAfter(d, k, fs, opts) ==
    IF fs = <<>> THEN d
    ELSE LET bf == opts.backoffFactor
             k1 == IF Head(fs) THEN k + 1 ELSE k
             d1 == IF Head(fs)
                   THEN (d * (2 * bf[1] + k1 * bf[2])) \div (2 * bf[2])
                   ELSE (d * bf[1]) \div bf[2]
         IN  DelayAfter(Min(d1, opts.maxDelayMs * Unit), k1, Tail(fs), opts)

\* C6: the counter equals the number of rate-limit failures seen so far in the
\* call (it starts at 0 and is never reset), and the delay follows
\* min(delay * (backoffFactor + 0.5 * k), maxDelayMs) after a rate limit and
\* min(delay * backoffFactor, maxDelayMs) after any other failure.
C6_CounterAndDelayFollowFailures ==
    rpc # "idle" =>
        /\ consecutiveRateLimits = RateLimitCount(failures)
        /\ currentDelay = DelayAfter(options.initialDelayMs * Unit, 0, failures, options)

C6_Witness ==
    /\ Len(failures) >= 3
    /\ failures[1] /\ ~failures[2] /\ failures[3]
    /\ consecutiveRateLimits = 2
    /\ currentDelay < options.maxDelayMs * Unit

----------------------------------------------------------------------------
(* Properties of the pagination loop of fetchAllTokenHolders *)

FullPagination == hpc # "idle" /\ ~BasicMode(holderOptions)
Completed == hpc = "done" /\ result.success
IsFull(a) == a.valid /\ Len(a.accounts) = holderOptions.pageSize
IsShort(a) == a.valid /\ Len(a.accounts) > 0 /\ Len(a.accounts) < holderOptions.pageSize
IsEmpty(a) == a.valid /\ Len(a.accounts) = 0
PagesObtained == [i \in 1 .. Len(obtained) |-> obtained[i].page]

RECURSIVE ItemsOn(_)
ItemsOn(answers) ==
    IF answers = <<>> THEN 0
    ELSE Len(Head(answers).accounts) + ItemsOn(Tail(answers))

RECURSIVE OwnedItemsOn(_)
OwnedItemsOn(answers) ==
    IF answers = <<>> THEN 0
    ELSE Cardinality({i \in 1 .. Len(Head(answers).accounts) :
                          Head(answers).accounts[i].owner # ""})
         + OwnedItemsOn(Tail(answers))

\* C7: in full pagination mode with maxPages = m > 0, page m + 1 is never
\* requested, and a collection that ran to its end on full pages only has
\* obtained exactly the pages 1 .. m, each once.
C7_ExactlyMaxPagesFetched ==
    (FullPagination /\ holderOptions.maxPages > 0) =>
        /\ lastRequested <= holderOptions.maxPages
        /\ (Completed /\ \A i \in 1 .. Len(obtained) : IsFull(obtained[i]))
               => PagesObtained = [i \in 1 .. holderOptions.maxPages |-> i]

C7_Witness ==
    /\ FullPagination
    /\ holderOptions.maxPages = 3
    /\ Completed
    /\ Len(obtained) = 3
    /\ \A i \in 1 .. Len(obtained) : IsFull(obtained[i])
    /\ calls > 1

\* C8: in full pagination mode a short page (fewer than pageSize items, more
\* than zero) is the last answer: its records are in the accumulators, the
\* collection has ended and no later page was requested.
C8_ShortPageEndsCollection ==
    FullPagination =>
        \A i \in 1 .. Len(obtained) :
            IsShort(obtained[i]) =>
                /\ i = Len(obtained)
                /\ Completed
                /\ ~hasMorePages
                /\ lastRequested = obtained[i].page
                /\ result.token_accounts_count = OwnedItemsOn(obtained)
                /\ \A j \in 1 .. Len(obtained[i].accounts) :
                       obtained[i].accounts[j].owner # ""
                           => obtained[i].accounts[j].owner \in allHolders

C8_Witness ==
    /\ FullPagination
    /\ Len(obtained) = 3
    /\ IsFull(obtained[1]) /\ IsFull(obtained[2]) /\ IsShort(obtained[3])
    /\ Completed
    /\ Len(allAccounts) > 2 * holderOptions.pageSize

EndsWithEmptyPage ==
    /\ FullPagination
    /\ holderOptions.maxPages = 0
    /\ Len(obtained) >= 1
    /\ IsEmpty(obtained[Len(obtained)])
    /\ \A i \in 1 .. Len(obtained) - 1 : IsFull(obtained[i])

\* C9 as stated: with maxPages = 0, full pages 1 .. k and an empty page k + 1,
\* the collection stops after page k + 1 with hasMorePages = false, page k + 2 is
\* never requested, and as many records are accumulated as pages 1 .. k have items.
C9_Original ==
    EndsWithEmptyPage =>
        /\ hpc = "done"
        /\ ~hasMorePages
        /\ lastRequested = Len(obtained)
        /\ PagesObtained = [i \in 1 .. Len(obtained) |-> i]
        /\ Len(allAccounts) = ItemsOn(obtained)

\* C9 amended: the same, the number of accumulated records being the number of
\* items on pages 1 .. k that have a non-empty owner.
C9_EmptyPageEndsCollection ==
    EndsWithEmptyPage =>
        /\ hpc = "done"
        /\ ~hasMorePages
        /\ lastRequested = Len(obtained)
        /\ PagesObtained = [i \in 1 .. Len(obtained) |-> i]
        /\ Len(allAccounts) = OwnedItemsOn(obtained)
        /\ result.token_accounts_count = OwnedItemsOn(obtained)

C9_Witness ==
    /\ EndsWithEmptyPage
    /\ Len(obtained) = 3
    /\ Len(allAccounts) = 2 * holderOptions.pageSize - 1

RequestSent == outstanding' = outstanding + 1

\* C10: at most one page request is outstanding; the first request is for page
\* 1; a request repeats the previous page number only as a retry of withRetry,
\* and otherwise asks for the next page, after the previous one came back full.
C10_PagesRequestedInOrder ==
    [][ /\ outstanding' \in {0, 1}
        /\ RequestSent =>
              /\ outstanding = 0
              /\ lastRequested = 0 => lastRequested' = 1
              /\ lastRequested > 0 =>
                    \/ lastRequested' = lastRequested /\ attempt > 0
                    \/ /\ lastRequested' = lastRequested + 1
                       /\ attempt = 0
                       /\ Len(obtained) >= 1
                       /\ obtained[Len(obtained)].page = lastRequested
                       /\ IsFull(obtained[Len(obtained)]) ]_vars

C10_Witness ==
    /\ FullPagination
    /\ outstanding = 1
    /\ lastRequested = 3
    /\ attempt > 0

\* C11: in full pagination mode, when page p > 1 is about to be fetched,
\* exactly p - 1 pacing sleeps have been taken, and each of them lasted
\* delayBetweenPages milliseconds, a number greater than 0, for every caller's
\* options, those of analyzeWhaleActivity included.
C11_PacingSleepBeforeEveryLaterPage ==
    (FullPagination /\ hpc \in {"pacing", "fetching"}) =>
        /\ pauses = page - 1
        /\ pauses > 0 => (lastPause # Undefined /\ lastPause[1] > 0)

\* the distinct non-empty owners on the answered pages
OwnersOn(answers) ==
    {o \in UNION {{answers[j].accounts[i].owner : i \in 1 .. Len(answers[j].accounts)} :
                      j \in 1 .. Len(answers)} : o # ""}

\* C12: when withRetry gives up on a page of a full pagination, the call
\* returns an envelope with success false and data_source
\* 'failed_with_partial_data' whose unique_holder_count is the number of
\* distinct owners, and whose token_accounts_count is the number of records
\* with an owner, on the pages obtained before.
C12_PartialDataPreservedOnExhaustion ==
    (FullPagination /\ hpc = "done" /\ rpc = "threw") =>
        /\ ~result.success
        /\ result.data_source = "failed_with_partial_data"
        /\ result.unique_holder_count = Cardinality(OwnersOn(obtained))
        /\ result.token_accounts_count = OwnedItemsOn(obtained)

C12_Witness ==
    /\ FullPagination /\ hpc = "done" /\ rpc = "threw"
    /\ Len(obtained) = 2
    /\ result.unique_holder_count = 3
    /\ result.token_accounts_count = 3
    /\ ItemsOn(obtained) = 2 * SmallPageSize

----------------------------------------------------------------------------
(* Functions without side effects: the arguments are drawn when the run     *)
(* starts, one step applies the function                                     *)

MaxOwners == 3

\* keys of holderBalances in insertion order
OwnerNames ==
    <<"o01", "o02", "o03", "o04", "o05", "o06", "o07", "o08", "o09", "o10",
      "o11", "o12", "o13", "o14">>

\* arguments of calculateHolderDistribution (line 562): balances around the
\* thresholds that a supply of 10000 puts at 100, 10 and 1
DistributionInputs ==
    UNION {{[entries |-> [i \in 1 .. n |-> [owner |-> OwnerNames[i], balance |-> bs[i]]],
             supply |-> s] :
                bs \in [1 .. n -> {0, 1, 9, 10, 99, 100, 5000}], s \in {0, 10000, 20000}} :
           n \in 0 .. MaxOwners}

MaxHolders == 12

\* the amount of the account of the i-th owner, by pattern
AmountOf(pattern, i) ==
    CASE pattern = "equal" -> 5
      [] pattern = "ascending" -> i
      [] pattern = "descending" -> 20 - i
      [] pattern = "mod3" -> i % 3
      [] pattern = "mod2" -> 3 * (i % 2)

\* allAccounts as the loop of lines 398-419 leaves it: one account per owner
\* in the order o01, o02, ..., then for `second` # "none" another account per
\* owner in the opposite order
TopHolderInputs ==
    {[accounts |->
         [i \in 1 .. n |->
             Stored(Account(OwnerNames[i], "first", AmountOf(first, i)))]
         \o (IF second = "none" THEN <<>>
             ELSE [i \in 1 .. n |->
                      Stored(Account(OwnerNames[n + 1 - i], "second",
                                     AmountOf(second, n + 1 - i)))])] :
        n \in 0 .. MaxHolders,
        first \in {"equal", "ascending", "descending", "mod3"},
        second \in {"none", "mod2", "mod3"}}

\* a JavaScript number as an exact fraction; den = 0 is Infinity
Ratio(n, d) == [nan |-> FALSE, num |-> n, den |-> d]
NotANumber == [nan |-> TRUE, num |-> 0, den |-> 1]

\* a field of an upstream pair: kind "absent", "text" (a decimal string),
\* "number" or "garbage" (a string that is not a number)
Upstream(kind, n, d) == [kind |-> kind, num |-> n, den |-> d]

\* parseFloat(v || dflt): absent and the number 0 are falsy, the text "0" is not
ParseOr(v, dflt) ==
    IF v.kind = "absent" \/ (v.kind = "number" /\ v.num = 0) THEN Ratio(dflt, 1)
    ELSE IF v.kind = "garbage" THEN NotANumber
    ELSE Ratio(v.num, v.den)

PriceNeverInverted(v, isBase) == ParseOr(v, 0)

\* dexscreener.js lines 91-97 and 210-215: 1 / x of a fraction swaps its terms
PriceFor(v, isBase) ==
    IF isBase THEN ParseOr(v, 0)
    ELSE LET x == ParseOr(v, 1) IN IF x.nan THEN x ELSE Ratio(x.den, x.num)

\* dexscreener.js lines 141-146 and 218: x * 1 or x * -1
ChangeFor(v, isBase) ==
    LET x == ParseOr(v, 0)
    IN  IF isBase \/ x.nan THEN x ELSE Ratio(0 - x.num, x.den)

Pair(base, quote, usd, native, h24, rest) ==
    [baseToken |-> base, quoteToken |-> quote, priceUsd |-> usd,
     priceNative |-> native,
     priceChange |-> [h24 |-> h24, h6 |-> rest, h1 |-> rest, m5 |-> rest]]

\* the token asked for and the pair lists the upstream answers with; no two
\* addresses differ by case only
Requested == "TokenA"
MarketDataInputs ==
    LET tokens == {<<b, q>> \in {"TokenA", "TokenB", "TokenC"} \X
                                {"TokenA", "TokenB", "TokenC"} : b # q}
        absent == Upstream("absent", 0, 1)
        prices == {absent, Upstream("text", 0, 1), Upstream("text", 1, 2),
                   Upstream("text", 4, 1), Upstream("garbage", 0, 1)}
        changes == {absent, Upstream("number", 0 - 5, 1), Upstream("number", 0, 1),
                    Upstream("number", 7, 1)}
        varied == {Pair(t[1], t[2], usd, native, h24, rest) :
                      t \in tokens, usd \in prices,
                      native \in {absent, Upstream("text", 1, 2)},
                      h24 \in changes, rest \in {absent, Upstream("number", 0 - 5, 1)}}
        fixed == {Pair(t[1], t[2], Upstream("text", 4, 1), Upstream("text", 1, 2),
                       Upstream("number", 7, 1), absent) : t \in tokens}
    IN  {[pairs |-> ps] :
            ps \in {<<>>} \cup {<<v>> : v \in varied}
                   \cup {<<v, f>> : v \in varied, f \in fixed}
                   \cup {<<f, v>> : v \in varied, f \in fixed}}

\* dexscreener.js lines 42-245: what fetchDexScreenerData makes of the pairs
\* of a well-formed response
MarketData(pairs) ==
    LET lower == [TokenA |-> "tokena", TokenB |-> "tokenb", TokenC |-> "tokenc"]
        isBaseOf(pair) == lower[pair.baseToken] = lower[Requested]
        isQuoteOf(pair) == lower[pair.quoteToken] = lower[Requested]
        relevantPairs == SelectSeq(pairs, LAMBDA pair : isBaseOf(pair) \/ isQuoteOf(pair))
        basePairs == SelectSeq(relevantPairs, isBaseOf)
    IN  IF Len(pairs) = 0
        THEN [success |-> FALSE, error |-> "No trading pairs found for this token"]
        ELSE IF Len(relevantPairs) = 0
        THEN \* line 70 reads mainPair.txns of an undefined mainPair
             [success |-> FALSE,
              error |-> "Failed to fetch DexScreener data: Cannot read properties of undefined (reading 'txns')"]
        ELSE LET mainPair == IF Len(basePairs) > 0 THEN basePairs[1] ELSE relevantPairs[1]
                 isBase == isBaseOf(mainPair)
             IN  [success |-> TRUE,
                  token_address |-> IF isBase THEN mainPair.baseToken
                                    ELSE mainPair.quoteToken,
                  is_base_token |-> isBase,
                  price_usd |-> PriceFor(mainPair.priceUsd, isBase),
                  price_native |-> PriceFor(mainPair.priceNative, isBase),
                  price_change |->
                      [h \in {"h24", "h6", "h1", "m5"} |->
                          ChangeFor(mainPair.priceChange[h], isBase)],
                  all_pairs |->
                      [i \in 1 .. Len(relevantPairs) |->
                          LET pair == relevantPairs[i] IN
                          [is_base |-> isBaseOf(pair),
                           price_usd |-> PriceFor(pair.priceUsd, isBaseOf(pair)),
                           price_native |-> PriceFor(pair.priceNative, isBaseOf(pair)),
                           price_change_24h |->
                               ChangeFor(pair.priceChange.h24, isBaseOf(pair))]],
                  raw_main_pair |-> mainPair]

MaxSegments == 3

\* an input text in pieces: [kind, len] with kind "base58" (base58 characters
\* not ending in the letters of "token"), "token" (those five letters, base58
\* characters themselves), "colon", "space" or "other" (any other character)
Segment(kind, len) == [kind |-> kind, len |-> len]
UserInputs ==
    LET pieces == {Segment("base58", l) : l \in {4, 31, 32, 44, 45}}
                  \cup {Segment("token", 5), Segment("colon", 1),
                        Segment("space", 1), Segment("other", 1)}
    IN  {[text |-> t] :
            t \in UNION {[1 .. n -> pieces] : n \in 0 .. MaxSegments}
                 \cup {\* "some random project"
                       <<Segment("base58", 4), Segment("space", 1), Segment("base58", 6),
                         Segment("space", 1), Segment("base58", 7)>>}}

AddressMatchFrom33(runLength) ==
    IF runLength >= 33 THEN Min(44, runLength) ELSE 0

\* researchBot.js line 78: the number of characters [1-9A-HJ-NP-Za-km-z]{32,44}
\* takes from the start of a run of base58 characters, 0 when it does not match
AddressMatch(runLength) ==
    IF runLength >= 32 THEN Min(44, runLength) ELSE 0

\* researchBot.js lines 74-122; a value is given as the part [at, length] of
\* the text (at = number of characters before it), trim() as the pieces left
analyzeUserInput(text) ==
    LET n == Len(text)
        base58(i) == i <= n /\ text[i].kind \in {"base58", "token"}
        runFrom[i \in 1 .. n + 1] ==
            IF base58(i) THEN text[i].len + runFrom[i + 1] ELSE 0
        before[i \in 1 .. n + 1] ==
            IF i = 1 THEN 0 ELSE before[i - 1] + text[i - 1].len
        \* "token:" followed by a match, line 79
        tokenMatches == {i \in 1 .. n - 1 :
                            /\ text[i].kind = "token"
                            /\ text[i + 1].kind = "colon"
                            /\ AddressMatch(runFrom[i + 2]) > 0}
        \* a match anywhere: the regular expression is not anchored
        solanaMatches == {i \in 1 .. n :
                             /\ base58(i) /\ (i = 1 \/ ~base58(i - 1))
                             /\ AddressMatch(runFrom[i]) > 0}
        first(S) == CHOOSE i \in S : \A j \in S : i <= j
        kept == {i \in 1 .. n : text[i].kind # "space"}
    IN  IF tokenMatches # {}
        THEN [type |-> "contract_address",
              value |-> [at |-> before[first(tokenMatches) + 2],
                         length |-> AddressMatch(runFrom[first(tokenMatches) + 2])],
              confidence |-> "high"]
        ELSE IF solanaMatches # {}
        THEN [type |-> "contract_address",
              value |-> [at |-> before[first(solanaMatches)],
                         length |-> AddressMatch(runFrom[first(solanaMatches)])],
              confidence |-> "high"]
        ELSE [type |-> "project_name",
              value |-> IF kept = {} THEN <<>>
                        ELSE SubSeq(text, first(kept),
                                    CHOOSE i \in kept : \A j \in kept : j <= i),
              confidence |-> "medium"]

----------------------------------------------------------------------------
(* analyzeSocialSentiment of server/services/socialSentiment.js. Scores     *)
(* and factors are counted in hundredths, price changes in per cent.        *)

\* what the function is called with, what fetchDexScreenerData and
\* analyzeTwitterSentiment answer when it asks them, and what Math.random
\* draws for the generated payload; " " is a text of white space only
SentimentInputs ==
    LET infos == {[type |-> t] : t \in {"undefined", "null", "number"}}
                 \cup {[type |-> "string", text |-> "MintA"]}
                 \cup {[type |-> "object", name |-> n, symbol |-> s, address |-> a] :
                          n \in {"", " ", "Tok"}, s \in {"", "TK"}, a \in {"", "MintA"}}
        changes == {[nan |-> TRUE, pct |-> 0]}
                   \cup {[nan |-> FALSE, pct |-> p] : p \in {0 - 40, 0 - 10, 0, 10, 60}}
        markets == {[success |-> FALSE]}
                   \cup {[success |-> TRUE, token_name |-> n[1], token_symbol |-> n[2],
                          price_change |-> [h24 |-> c]] :
                            n \in {<<"", "">>, <<"Dex", "DX">>}, c \in changes}
        twitters == {[is |-> "throws"], [is |-> "error"]}
                    \cup {[is |-> "counted", total_tweets |-> 0,
                           average_likes |-> 0, average_retweets |-> 0]}
                    \cup {[is |-> "counted", total_tweets |-> 3,
                           average_likes |-> l, average_retweets |-> r] :
                             l \in {0, 3, 10, 30}, r \in {0, 5, 20}}
    IN  {[tokenAddressOrInfo |-> i, dex |-> d, twitter |-> t, random |-> x] :
            i \in infos, d \in markets, t \in twitters, x \in {0 - 100, 37}}

UncappedPriceChangeFactor(priceChange24h) == 2 * priceChange24h

\* line 544: Math.min(Math.max(priceChange24h / 50, -0.5), 0.5)
priceChangeFactor(priceChange24h) == Min(Max(2 * priceChange24h, 0 - 50), 50)

\* lines 376-566; answers are those of the two services, asked or not
analyzeSocialSentiment(tokenAddressOrInfo, answers) ==
    LET type == tokenAddressOrInfo.type
        cleanInputString(s) == IF s = " " THEN "" ELSE s
        or(s, default) == IF s = "" THEN default ELSE s
        \* lines 317-354
        generateFallbackSentimentData(name, symbol) ==
            [success |-> TRUE, source |-> "generated",
             token_info |-> [name |-> or(cleanInputString(name), "Unknown"),
                             symbol |-> or(cleanInputString(symbol), "UNKNOWN")],
             overall_sentiment_score |-> [toFixed |-> answers.random]]
        \* lines 389-435
        address == IF type = "string" THEN tokenAddressOrInfo.text
                   ELSE tokenAddressOrInfo.address
        fetched == type = "string" \/ address # ""
        haveMarket == fetched /\ answers.dex.success
        dexScreenerData == answers.dex
        name == IF type = "string"
                THEN IF haveMarket THEN dexScreenerData.token_name ELSE address
                ELSE IF tokenAddressOrInfo.name = "" /\ haveMarket
                     THEN dexScreenerData.token_name ELSE tokenAddressOrInfo.name
        symbol == IF type = "string"
                  THEN IF haveMarket THEN dexScreenerData.token_symbol ELSE address
                  ELSE IF tokenAddressOrInfo.symbol = "" /\ haveMarket
                       THEN dexScreenerData.token_symbol ELSE tokenAddressOrInfo.symbol
        \* lines 442-444
        tokenName == cleanInputString(name)
        tokenSymbol == cleanInputString(symbol)
        tokenAddress == cleanInputString(address)
        market_data == [price_change_24h |-> dexScreenerData.price_change.h24]
        \* lines 289-295 of analyzeTwitterSentiment
        engagementScore == 5 * answers.twitter.average_likes
                           + 10 * answers.twitter.average_retweets
        sentiment_score == Min(Max(engagementScore - 50, 0 - 100), 100)
        twitterAnalysis == [success |-> answers.twitter.total_tweets > 0,
                            total_tweets |-> answers.twitter.total_tweets,
                            sentiment_score |-> sentiment_score]
        \* lines 456-478
        useFallback == \/ answers.twitter.is \in {"throws", "error"}
                       \/ ~twitterAnalysis.success
                       \/ twitterAnalysis.total_tweets = 0
        fallbackData == generateFallbackSentimentData(tokenName, tokenSymbol)
        token_info == [name |-> or(tokenName, "Unknown"),
                       symbol |-> or(tokenSymbol, "UNKNOWN"),
                       address |-> or(tokenAddress, "Unknown")]
        \* line 516: a score of 0 is replaced by 0
        originalScore == twitterAnalysis.sentiment_score
        priceChange24h == dexScreenerData.price_change.h24
    IN  \* line 380: JSON.stringify(undefined) is undefined and has no
        \* substring; the try begins on line 383
        IF type = "undefined" THEN Rejection
        \* lines 436-439 and the catch of lines 557-565
        ELSE IF type \in {"null", "number"}
        THEN generateFallbackSentimentData("Unknown", "Unknown")
        \* lines 449-452
        ELSE IF tokenName = "" /\ tokenSymbol = ""
        THEN generateFallbackSentimentData(tokenAddress, tokenAddress)
        \* lines 481-504
        ELSE IF useFallback
        THEN IF haveMarket
             THEN [success |-> TRUE, source |-> "generated",
                   token_info |-> token_info,
                   overall_sentiment_score |-> fallbackData.overall_sentiment_score,
                   market_data |-> market_data]
             ELSE fallbackData
        \* lines 508-555
        ELSE IF haveMarket
        THEN [success |-> TRUE, token_info |-> token_info, twitter |-> twitterAnalysis,
              overall_sentiment_score |->
                  IF ~priceChange24h.nan /\ priceChange24h.pct # 0
                  THEN Min(Max(originalScore + priceChangeFactor(priceChange24h.pct),
                               0 - 100), 100)
                  ELSE originalScore,
              market_data |-> market_data]
        ELSE [success |-> TRUE, token_info |-> token_info, twitter |-> twitterAnalysis,
              overall_sentiment_score |-> originalScore]

----------------------------------------------------------------------------
(* assessInvestmentPotential of server/agents/researchBot.js, lines 567-607: *)
(* the social links of the analysis. An array is known by the place that    *)
(* first held it: "links" is socialData.links.socials, "llm" the socials    *)
(* array of the JSON the LLM answered with, "new" the literal of line 594;  *)
(* a field holds one of these names, or "none" when it is absent.           *)

\* the arrays that exist when the LLM has answered, with the types of their
\* entries; socialData as analyzeSocialSentiment returns it, without a
\* socials field of its own; a twitter_handle of "" is one that is absent
SocialLinkInputs ==
    {[arrays |-> [links |-> l, llm |-> <<"website">>],
      socialData |-> [socials |-> "none", links |-> [socials |-> ls],
                      twitter |-> [twitter_handle |-> h]],
      analysis |-> [socials |-> as]] :
        l \in {<<>>, <<"telegram">>, <<"twitter">>, <<"telegram", "twitter">>},
        ls \in {"none", "links"}, as \in {"none", "llm"},
        h \in {"", "Not found", "tok"}}

\* lines 567-607: the arrays and the analysis afterwards
AddSocialLinks(arrays, socialData, analysis) ==
    LET \* lines 571-580: an assignment copies the reference
        assigned == IF socialData.socials # "none" THEN socialData.socials
                    ELSE IF socialData.links.socials # "none"
                    THEN socialData.links.socials
                    ELSE analysis.socials
        \* line 593
        named == socialData.twitter.twitter_handle \notin {"", "Not found"}
        \* line 594: if (!analysis.socials) analysis.socials = []
        socials == IF assigned = "none" THEN "new" ELSE assigned
        heap == IF assigned = "none" THEN ("new" :> <<>>) @@ arrays ELSE arrays
        \* line 597
        hasTwitter == \E i \in 1 .. Len(heap[socials]) : heap[socials][i] = "twitter"
    IN  IF ~named
        THEN [arrays |-> arrays, analysis |-> [socials |-> assigned]]
        ELSE [arrays |-> IF hasTwitter THEN heap
                         \* lines 599-603: push on the array analysis.socials refers to
                         ELSE [heap EXCEPT ![socials] = Append(@, "twitter")],
              analysis |-> [socials |-> socials]]

\* the call of a function without side effects returns
Apply(name, value) ==
    /\ fn = name
    /\ ~applied
    /\ output' = value
    /\ applied' = TRUE
    /\ UNCHANGED <<fn, input, exceptFunctionVars>>

CalculateHolderDistribution ==
    Apply("calculateHolderDistribution",
          calculateHolderDistribution(input.entries, input.supply))

\* lines 434-453: the top holders of the accounts collected
TopHoldersOfAccounts ==
    Apply("topHolders", TopHolders(input.accounts))

\* dexscreener.js lines 42-238: the response has arrived
FetchDexScreenerData ==
    Apply("fetchDexScreenerData", MarketData(input.pairs))

AnalyzeUserInput ==
    Apply("analyzeUserInput", analyzeUserInput(input.text))

\* researchBot.js lines 567-607
AssessInvestmentPotential ==
    Apply("assessInvestmentPotential",
          AddSocialLinks(input.arrays, input.socialData, input.analysis))

\* socialSentiment.js lines 376-566: the promise of the call settles
AnalyzeSocialSentiment ==
    Apply("analyzeSocialSentiment",
          analyzeSocialSentiment(input.tokenAddressOrInfo, input))

FunctionInputs ==
    [calculateHolderDistribution |-> DistributionInputs,
     topHolders |-> TopHolderInputs,
     fetchDexScreenerData |-> MarketDataInputs,
     analyzeUserInput |-> UserInputs,
     analyzeSocialSentiment |-> SentimentInputs,
     assessInvestmentPotential |-> SocialLinkInputs]

FunctionsInit ==
    /\ TokenHoldersInit
    /\ NoMetrics
    /\ NoBot
    /\ NoApi
    /\ fn \in DOMAIN FunctionInputs
    /\ input \in FunctionInputs[fn]
    /\ output = Undefined
    /\ applied = FALSE

FunctionsNext ==
    \/ CalculateHolderDistribution
    \/ TopHoldersOfAccounts
    \/ FetchDexScreenerData
    \/ AnalyzeUserInput
    \/ AnalyzeSocialSentiment
    \/ AssessInvestmentPotential

Functions == FunctionsInit /\ [][FunctionsNext]_vars

----------------------------------------------------------------------------
(* Properties of the holder aggregation *)

\* the bucket a balance belongs to: >= 1%, [0.1%, 1%), [0.01%, 0.1%), < 0.01%
\* of the supply
InBucket(i, b, s) ==
    CASE i = 1 -> 100 * b >= s
      [] i = 2 -> 1000 * b >= s /\ 100 * b < s
      [] i = 3 -> 10000 * b >= s /\ 1000 * b < s
      [] i = 4 -> 10000 * b < s

\* C13: for every map of balances and every supply, 0 included,
\* calculateHolderDistribution counts each owner in exactly one of the four
\* buckets, the one its balance belongs to (lower bound inclusive, upper bound
\* exclusive), so the four counts add up to the number of owners.
C13_EachOwnerInExactlyOneBucket ==
    (fn = "calculateHolderDistribution" /\ applied) =>
        LET e == input.entries
            s == input.supply
        IN  /\ Len(output) = 4
            /\ \A k \in 1 .. Len(e) :
                   Cardinality({i \in 1 .. 4 : InBucket(i, e[k].balance, s)}) = 1
            /\ \A i \in 1 .. 4 :
                   output[i].count =
                       Cardinality({k \in 1 .. Len(e) : InBucket(i, e[k].balance, s)})
            /\ output[1].count + output[2].count + output[3].count + output[4].count
                   = Len(e)

C13_Witness ==
    /\ fn = "calculateHolderDistribution" /\ applied
    /\ input.supply = 10000
    /\ Len(input.entries) = 3
    /\ input.entries[1].balance = 100
    /\ input.entries[2].balance = 99
    /\ input.entries[3].balance = 0
    /\ <<output[1].count, output[2].count, output[3].count, output[4].count>>
           = <<1, 1, 0, 1>>

\* position at which an owner is first seen among the accounts
FirstSeen(owner, accs) ==
    CHOOSE i \in 1 .. Len(accs) :
        /\ accs[i].owner = owner
        /\ \A j \in 1 .. i - 1 : accs[j].owner # owner

\* o1 ranks before o2: larger summed balance, or equal balance and seen first
RanksBefore(o1, o2, accs) ==
    \/ BalanceOf(o1, accs) > BalanceOf(o2, accs)
    \/ /\ BalanceOf(o1, accs) = BalanceOf(o2, accs)
       /\ FirstSeen(o1, accs) < FirstSeen(o2, accs)

\* C14: top_holders holds the first min(10, number of distinct owners) owners
\* in descending order of their summed balances, owners with equal balances
\* in the order in which they were first seen; every owner left out ranks
\* after every owner listed.
C14_TopHoldersStableDescendingTop10 ==
    (fn = "topHolders" /\ applied) =>
        LET accs == input.accounts
            owners == {accs[i].owner : i \in 1 .. Len(accs)}
            listed == {output[i].owner : i \in 1 .. Len(output)}
        IN  /\ Len(output) = Min(10, Cardinality(owners))
            /\ \A i \in 1 .. Len(output) :
                   /\ output[i].owner \in owners
                   /\ output[i].balance = BalanceOf(output[i].owner, accs)
            /\ \A i, j \in 1 .. Len(output) :
                   i < j => RanksBefore(output[i].owner, output[j].owner, accs)
            /\ \A o \in owners \ listed, i \in 1 .. Len(output) :
                   RanksBefore(output[i].owner, o, accs)

C14_Witness ==
    /\ fn = "topHolders" /\ applied
    /\ Cardinality({input.accounts[i].owner : i \in 1 .. Len(input.accounts)}) = 12
    /\ Len(input.accounts) = 24
    /\ Len(output) = 10
    /\ <<output[1].owner, output[2].owner, output[3].owner, output[4].owner>>
           = <<"o02", "o05", "o08", "o11">>
    /\ output[1].balance = output[4].balance
    /\ output[4].balance > output[10].balance

----------------------------------------------------------------------------
(* Properties of fetchDexScreenerData *)

\* an upstream field that carries a number
Present(v) == v.kind \in {"text", "number"}

\* the number x is 1 / v (Infinity for v = 0)
IsInverse(x, v) ==
    /\ ~x.nan
    /\ IF v.num = 0 THEN x.den = 0 /\ x.num > 0
       ELSE x.den # 0 /\ x.num * v.num = x.den * v.den

\* the number x is sign * v
IsTimes(x, sign, v) ==
    ~x.nan /\ x.den # 0 /\ x.num * v.den = sign * v.num * x.den

\* C15: when the requested token is the quote token of the selected pair,
\* price_usd and price_native are 1 / the upstream priceUsd and priceNative and
\* every price_change field is the negated upstream value; when it is the
\* base token, the upstream values are returned as they are.
C15_QuoteSideInvertedBaseSideUnchanged ==
    (fn = "fetchDexScreenerData" /\ applied /\ output.success) =>
        LET main == output.raw_main_pair
            asBase == main.baseToken = Requested
            asQuote == main.quoteToken = Requested /\ ~asBase
        IN  /\ asBase \/ asQuote
            /\ output.is_base_token = asBase
            /\ asQuote =>
                 /\ Present(main.priceUsd) => IsInverse(output.price_usd, main.priceUsd)
                 /\ Present(main.priceNative) =>
                        IsInverse(output.price_native, main.priceNative)
                 /\ \A h \in {"h24", "h6", "h1", "m5"} :
                        Present(main.priceChange[h]) =>
                            IsTimes(output.price_change[h], 0 - 1, main.priceChange[h])
            /\ asBase =>
                 /\ Present(main.priceUsd) => IsTimes(output.price_usd, 1, main.priceUsd)
                 /\ Present(main.priceNative) =>
                        IsTimes(output.price_native, 1, main.priceNative)
                 /\ \A h \in {"h24", "h6", "h1", "m5"} :
                        Present(main.priceChange[h]) =>
                            IsTimes(output.price_change[h], 1, main.priceChange[h])

C15_Witness ==
    /\ fn = "fetchDexScreenerData" /\ applied /\ output.success
    /\ ~output.is_base_token
    /\ output.raw_main_pair.quoteToken = Requested
    /\ output.raw_main_pair.priceUsd = Upstream("text", 4, 1)
    /\ output.price_usd = Ratio(1, 4)
    /\ output.price_native = Ratio(2, 1)
    /\ output.raw_main_pair.priceChange.h24 = Upstream("number", 7, 1)
    /\ output.price_change.h24 = Ratio(0 - 7, 1)
    /\ output.price_change.h6 = Ratio(5, 1)

----------------------------------------------------------------------------
(* analyzeOnChainMetrics of server/services/onChainMetrics.js *)

\* how the promise of a sub-analysis can settle: each function returns its
\* result or, from its catch block, its own failure envelope (lines 43-49,
\* 86-92, 153-159); the promise rejects only if that catch block throws,
\* which reading error.message does when the value caught is null or undefined
SubOutcomes ==
    LET Fulfilled(value) == [status |-> "fulfilled", value |-> value]
        Failure(message) == Fulfilled([success |-> FALSE, error |-> message])
        rejected == [status |-> "rejected",
                     value |-> [message |-> "Cannot read properties of undefined (reading 'message')"]]
    IN  [transaction_patterns |->
            {Fulfilled([total_transactions |-> n, transaction_frequency |-> f]) :
                 <<n, f>> \in {<<0, 0>>, <<1, 0>>, <<100, 25>>}}
            \cup {Failure("Failed to analyze transaction patterns: Invalid public key input"),
                  rejected},
         whale_activity |->
            {Fulfilled([success |-> TRUE, total_holders |-> 3,
                        data_source |-> "helius_paginated"]),
             Failure("Failed to analyze whale activity: HELIUS_API_KEY is required for this operation"),
             rejected},
         \* what analyzeLiquidityMetrics returns is computed from the answers
         \* of its sources, see LiquiditySourceAnswers
         liquidity_metrics |-> {rejected}]

\* lines 170-174: the three calls are made one after the other without an
\* await in between, then Promise.allSettled is awaited
AnalyzeOnChainMetrics ==
    /\ mpc = "idle"
    /\ mpc' = "settling"
    /\ sub' = [s \in SubAnalyses |-> [status |-> "pending", value |-> NotReturned]]
    /\ UNCHANGED <<metrics, asked, exceptMetricsVars>>

SubAnalysisSettles ==
    /\ mpc = "settling"
    /\ \E s \in SubAnalyses : \E o \in SubOutcomes[s] :
        /\ sub[s].status = "pending"
        /\ sub' = [sub EXCEPT ![s] = o]
    /\ UNCHANGED <<mpc, metrics, asked, exceptMetricsVars>>

\* onChainMetrics.js lines 100-160, one pass of the loop of line 111: the
\* next source is queried and answers; a source can fail (time out, answer
\* with an error status), answer with an empty body, with a body that has no
\* or an empty pair list, or with pairs
LiquiditySourceAnswers ==
    LET sources == <<"dexscreener", "solanafm">>
        next == Len(asked) + 1
        Fulfilled(v) == [status |-> "fulfilled", value |-> v]
    IN  /\ mpc = "settling"
        /\ sub.liquidity_metrics.status = "pending"
        /\ next <= Len(sources)
        /\ \E answer \in {"failed", "empty body", "no pairs", "pairs"} :
            /\ asked' = Append(asked, [source |-> sources[next], answer |-> answer])
            /\ sub' = [sub EXCEPT !.liquidity_metrics =
                   IF answer \in {"no pairs", "pairs"}
                   THEN \* lines 114-118 and 126-148: response.data is truthy
                        Fulfilled([success |-> TRUE, source |-> sources[next],
                                   price_usd |-> IF sources[next] = "dexscreener"
                                                    /\ answer = "pairs"
                                                 THEN 2 ELSE 0])
                   ELSE IF next = Len(sources)
                   THEN \* lines 124-126 and 150-156
                        Fulfilled([success |-> FALSE,
                                   error |-> "Failed to analyze liquidity metrics: All liquidity data sources failed"])
                   ELSE @]
        /\ UNCHANGED <<mpc, metrics, exceptMetricsVars>>

FirstRejectionOrAllFulfilled(subs) ==
    \/ \E s \in SubAnalyses : subs[s].status = "rejected"
    \/ \A s \in SubAnalyses : subs[s].status = "fulfilled"

\* Promise.allSettled resolves once no promise is pending
AllSettled(subs) ==
    \A s \in SubAnalyses : subs[s].status \in {"fulfilled", "rejected"}

ReasonWhenRejected(r) == r.value

\* lines 179-187: the value of a fulfilled promise, a placeholder otherwise
ResultFor(r) ==
    IF r.status = "fulfilled" THEN r.value
    ELSE [success |-> FALSE, error |-> "Analysis failed"]

\* lines 177-189
OnChainMetricsReturns ==
    /\ mpc = "settling"
    /\ AllSettled(sub)
    /\ mpc' = "done"
    /\ metrics' = [success |-> TRUE,
                   transaction_patterns |-> ResultFor(sub.transaction_patterns),
                   whale_activity |-> ResultFor(sub.whale_activity),
                   liquidity_metrics |-> ResultFor(sub.liquidity_metrics),
                   timestamp |-> "now"]
    /\ UNCHANGED <<sub, asked, exceptMetricsVars>>

MetricsNext ==
    \/ AnalyzeOnChainMetrics
    \/ SubAnalysisSettles
    \/ LiquiditySourceAnswers
    \/ OnChainMetricsReturns

OnChainMetrics == Init /\ [][MetricsNext]_vars

----------------------------------------------------------------------------
(* Properties of analyzeOnChainMetrics *)

Rejected(s) == sub[s].status = "rejected"

\* C16: analyzeOnChainMetrics returns only after all three sub-analyses have
\* settled, and when one of them rejected, each of the others that fulfilled
\* appears under its own key with exactly the value it returned.
C16_OthersAwaitedAndUnchanged ==
    mpc = "done" =>
        /\ \A s \in SubAnalyses : sub[s].status \in {"fulfilled", "rejected"}
        /\ \A s \in SubAnalyses :
               (\E t \in SubAnalyses \ {s} : Rejected(t)) /\ ~Rejected(s)
                   => metrics[s] = sub[s].value

C16_Witness ==
    /\ mpc = "done"
    /\ Rejected("whale_activity")
    /\ metrics.transaction_patterns =
           [total_transactions |-> 100, transaction_frequency |-> 25]
    /\ metrics.liquidity_metrics =
           [success |-> TRUE, source |-> "dexscreener", price_usd |-> 2]

\* a sub-analysis failed: its promise rejected, or it returned a failure envelope
Failed(s) ==
    \/ Rejected(s)
    \/ "success" \in DOMAIN sub[s].value /\ ~sub[s].value.success

\* C17 as stated: the returned object has the three keys and every failed
\* sub-analysis appears as exactly {success: false, error: "Analysis failed"}.
C17_Original ==
    mpc = "done" =>
        /\ SubAnalyses \subseteq DOMAIN metrics
        /\ \A s \in SubAnalyses :
               Failed(s) => metrics[s] = [success |-> FALSE, error |-> "Analysis failed"]

\* C17, amended: the returned object has the three keys; a sub-analysis whose
\* promise rejected appears as exactly {success: false, error: "Analysis
\* failed"}, and one that returned a failure envelope appears as that
\* envelope, which has success false and its own error text.
C17_KeysPresentFailuresAsEnvelopes ==
    mpc = "done" =>
        /\ SubAnalyses \subseteq DOMAIN metrics
        /\ \A s \in SubAnalyses :
               /\ Rejected(s) =>
                      metrics[s] = [success |-> FALSE, error |-> "Analysis failed"]
               /\ Failed(s) /\ ~Rejected(s) =>
                      /\ metrics[s] = sub[s].value
                      /\ DOMAIN metrics[s] = {"success", "error"}
                      /\ ~metrics[s].success
                      /\ metrics[s].error # "Analysis failed"

C17_Witness ==
    /\ mpc = "done"
    /\ Rejected("transaction_patterns")
    /\ metrics.transaction_patterns = [success |-> FALSE, error |-> "Analysis failed"]
    /\ metrics.whale_activity =
           [success |-> FALSE,
            error |-> "Failed to analyze whale activity: HELIUS_API_KEY is required for this operation"]
    /\ metrics.liquidity_metrics.success

----------------------------------------------------------------------------
(* Properties of analyzeUserInput *)

RECURSIVE LengthOf(_)
LengthOf(text) ==
    IF text = <<>> THEN 0 ELSE Head(text).len + LengthOf(Tail(text))

OnlyBase58(text) == \A i \in 1 .. Len(text) : text[i].kind \in {"base58", "token"}

\* the whole text is 32 to 44 base58 characters
AddressShaped(text) ==
    OnlyBase58(text) /\ LengthOf(text) >= 32 /\ LengthOf(text) <= 44

\* free text: no 32 base58 characters in a row anywhere
FreeText(text) ==
    \A i, j \in 1 .. Len(text) :
        i <= j /\ OnlyBase58(SubSeq(text, i, j)) => LengthOf(SubSeq(text, i, j)) < 32

\* C18: an address-shaped text, alone or after the prefix 'token:', is
\* classified contract_address with that address as value; free text is
\* classified project_name with the trimmed text as value; the 44 base58
\* characters of 'EPjFWdd5AufqSSqeM2qN1xzybapC8G4wEGGkZwyTDt1v' are a
\* contract_address and 'some random project' is a project_name.
C18_AddressOrProjectName ==
    (fn = "analyzeUserInput" /\ applied) =>
        LET text == input.text IN
        /\ AddressShaped(text) =>
               /\ output.type = "contract_address"
               /\ output.value = [at |-> 0, length |-> LengthOf(text)]
        /\ (/\ Len(text) > 2
            /\ text[1] = Segment("token", 5) /\ text[2] = Segment("colon", 1)
            /\ AddressShaped(SubSeq(text, 3, Len(text)))) =>
               /\ output.type = "contract_address"
               /\ output.value = [at |-> 6, length |-> LengthOf(text) - 6]
        /\ FreeText(text) =>
               /\ output.type = "project_name"
               /\ output.value # <<>> =>
                      /\ Head(output.value).kind # "space"
                      /\ output.value[Len(output.value)].kind # "space"
               /\ \E i, j \in 0 .. Len(text) :
                      /\ output.value = SubSeq(text, i + 1, j)
                      /\ \A k \in (1 .. i) \cup (j + 1 .. Len(text)) : text[k].kind = "space"
        /\ text = <<Segment("base58", 44)>> => output.type = "contract_address"
        /\ text = <<Segment("base58", 4), Segment("space", 1), Segment("base58", 6),
                    Segment("space", 1), Segment("base58", 7)>>
               => output.type = "project_name"

C18_Witness ==
    /\ fn = "analyzeUserInput" /\ applied
    /\ input.text = <<Segment("token", 5), Segment("colon", 1), Segment("base58", 32)>>
    /\ output = [type |-> "contract_address", value |-> [at |-> 6, length |-> 32],
                 confidence |-> "high"]

----------------------------------------------------------------------------
(* ResearchBot.processInitialQuery of server/agents/researchBot.js: calls   *)
(* on one bot, each suspended at its awaits while others run                 *)

Adapters == {"contract", "market", "onchain", "social"}

Truthy(v) == v.is \notin {"null", "undefined"}

StateOfPreviousQuery == agent[1]

\* lines 22-53: new AgentState(); marketData is no field of it; "" stands for
\* the null of inputType, contractAddress and projectName
NewAgentState ==
    [is |-> "AgentState", contractData |-> Null, tokenData |-> Null,
     socialData |-> Null, onChainData |-> Null, marketData |-> [is |-> "undefined"],
     finalAnalysis |-> Null, inputType |-> "", contractAddress |-> "",
     projectName |-> "", conversationHistory |-> <<>>]

\* what the caller of processInitialQuery passes, as analyzeUserInput (lines
\* 74-122) classifies it, with the value it extracts
Queries ==
    {[type |-> "contract_address", value |-> "MintA"],
     [type |-> "contract_address", value |-> "MintB"],
     [type |-> "project_name", value |-> "some random project"],
     [type |-> "project_name", value |-> ""]}

\* what an awaited call can give: the adapters return an object (socialSentiment.js
\* lines 1299-1302 and 376-566, dexscreener.js lines 12-245, onChainMetrics.js
\* lines 167-198); a rejection stands for a catch block that throws itself
Outcomes(adapter, arg) ==
    CASE adapter = "contract" ->
            {[is |-> "token", for |-> arg], [is |-> "program", for |-> arg],
             [is |-> "error", for |-> arg], Rejection}
      [] adapter = "market" ->
            {[is |-> "success", for |-> arg], [is |-> "failure", for |-> arg], Rejection}
      [] adapter = "onchain" ->
            {[is |-> "metrics", for |-> arg, market_data |-> Null], Rejection}
      [] adapter = "social" ->
            {[is |-> "sentiment", for |-> arg], Rejection}
      [] adapter = "llm" ->
            {[is |-> "json", keys |-> "all"], [is |-> "json", keys |-> "some"],
             [is |-> "text"], Rejection}

\* lines 713-763 on what analyzeSolanaProgram returns
extractTokenDataFromProgramAnalysis(programData) ==
    IF programData.is = "token"
    THEN [is |-> "token", for |-> programData.for, name |-> TRUE]
    ELSE Null

\* a call of processInitialQuery between two awaits: where it stands, the
\* AgentState its pending assignment writes to, the argument of the awaited call
Suspended(pc, target, arg) ==
    [pc |-> pc, target |-> target, arg |-> arg, value |-> Null]
Returned(value) ==
    [pc |-> "returned", target |-> 0, arg |-> Null, value |-> value]

CatchThatRethrows(heap) ==
    [heap |-> heap,
     call |-> [pc |-> "threw", target |-> 0, arg |-> Null, value |-> Null]]

\* lines 1014-1021: the catch of processInitialQuery
OuterCatch(heap) ==
    [heap |-> heap,
     call |-> Returned([is |-> "failed", keys |-> {"error", "final_recommendation"}])]

\* lines 995-1012: history and return
ReturnAnalysis(heap, this) ==
    [heap |-> [heap EXCEPT ![this].conversationHistory = @ \o <<"user", "assistant">>],
     call |-> Returned(heap[this].finalAnalysis)]

ReportFields ==
    {"smart_contract_risk", "token_performance", "on_chain_metrics", "social_sentiment",
     "risk_reward_ratio", "confidence_score", "final_recommendation", "timestamp"}

\* lines 914-992, up to the await inside assessInvestmentPotential (line 499)
SynthesisGate(heap, this) ==
    LET s == heap[this]
        enough == \/ Truthy(s.contractData) /\ s.contractData.is # "error"
                  \/ Truthy(s.tokenData) /\ s.tokenData.is # "error"
                  \/ s.marketData.is = "success"
    IN  IF enough
        THEN [heap |-> heap,
              call |-> Suspended("llm", this,
                                 [contractAnalysis |-> s.contractData,
                                  tokenMetrics |-> s.tokenData,
                                  onChainData |-> s.onChainData,
                                  socialData |-> s.socialData])]
        ELSE ReturnAnalysis(
                 [heap EXCEPT ![this].finalAnalysis =
                     [is |-> "insufficient", keys |-> {"error", "final_recommendation"}]],
                 this)

\* lines 893-912
SocialGate(heap, this) ==
    LET s == heap[this] IN
    IF Truthy(s.tokenData) /\ s.tokenData.is # "error"
    THEN [heap |-> heap, call |-> Suspended("social", this, s.tokenData.for)]
    ELSE IF s.contractAddress # ""
    THEN [heap |-> heap, call |-> Suspended("social", this, s.contractAddress)]
    ELSE IF s.projectName # ""
    THEN [heap |-> heap, call |-> Suspended("social", this, s.projectName)]
    ELSE SynthesisGate([heap EXCEPT ![this].socialData = Null], this)

\* lines 864-868 and 889-891
OnChainGate(heap, this) ==
    IF heap[this].contractAddress # ""
    THEN [heap |-> heap, call |-> Suspended("onchain", this, heap[this].contractAddress)]
    ELSE SocialGate(heap, this)

MarketGateForAnyInput(heap, this) ==
    [heap |-> heap, call |-> Suspended("market", this, heap[this].contractAddress)]

\* lines 808-813
MarketGate(heap, this) ==
    IF heap[this].contractAddress # ""
    THEN [heap |-> heap, call |-> Suspended("market", this, heap[this].contractAddress)]
    ELSE OnChainGate(heap, this)

\* a step of call r: from the settling of what it awaits to its next await
\* or its return
Step(r, next) ==
    /\ agent' = next.heap
    /\ call' = [call EXCEPT ![r] = next.call]
    /\ adapterCalls' = [adapterCalls EXCEPT
           ![r].started = @ \cup ({next.call.pc} \cap Adapters),
           ![r].given = IF next.call.pc \in Adapters
                        THEN @ \cup {<<next.call.pc, next.call.arg>>} ELSE @,
           ![r].completed = @ \cup ({call[r].pc} \cap Adapters)]
    /\ UNCHANGED <<session, exceptBotVars>>

ThisOfTheOnlyBot(r) == thisState["s1"]

\* the AgentState that this.state refers to in call r
This(r) == thisState[session[r]]

\* routes/api.js lines 10-16 and 27-28, researchBot.js lines 769-779: the bot
\* held under the session_id of the request is called, makes its AgentState
\* and awaits analyzeUserInput; the calls are numbered in the order they are
\* made and the session ids in the order they first appear
ProcessInitialQuery(r) ==
    /\ call[r].pc = "idle"
    /\ \A earlier \in Requests : earlier < r => call[earlier].pc # "idle"
    /\ \E query \in Queries, id \in SessionIds :
        /\ id = "s1" \/ r > 1
        /\ session' = [session EXCEPT ![r] = id]
        /\ agent' = [agent EXCEPT ![r] = NewAgentState]
        /\ thisState' = [thisState EXCEPT ![id] = r]
        /\ call' = [call EXCEPT ![r] = Suspended("input", r, query)]
        /\ adapterCalls' = [adapterCalls EXCEPT ![r].query = query]
    /\ UNCHANGED exceptBotVars

\* lines 779-806: analyzeUserInput has returned
InputAnalyzed(r) ==
    /\ call[r].pc = "input"
    /\ LET inputAnalysis == call[r].arg
           typed == [agent EXCEPT ![This(r)].inputType = inputAnalysis.type]
           heap == IF inputAnalysis.type = "contract_address"
                   THEN [typed EXCEPT ![This(r)].contractAddress = inputAnalysis.value]
                   ELSE [typed EXCEPT ![This(r)].projectName = inputAnalysis.value]
       IN  /\ UNCHANGED thisState
           /\ Step(r, IF heap[This(r)].contractAddress # ""
                      THEN [heap |-> heap,
                            call |-> Suspended("contract", This(r),
                                               heap[This(r)].contractAddress)]
                      ELSE MarketGate(heap, This(r)))

\* lines 799-803: analyzeSolanaProgram has settled
ContractReturns(r) ==
    /\ call[r].pc = "contract"
    /\ \E o \in Outcomes("contract", call[r].arg) :
        /\ UNCHANGED thisState
        /\ Step(r, IF o = Rejection THEN OuterCatch(agent)
                   ELSE LET stored == [agent EXCEPT ![call[r].target].contractData = o]
                        IN  MarketGate(
                                [stored EXCEPT ![This(r)].tokenData =
                                    extractTokenDataFromProgramAnalysis(
                                        stored[This(r)].contractData)],
                                This(r)))

\* lines 813-862: fetchDexScreenerData has settled
MarketReturns(r) ==
    /\ call[r].pc = "market"
    /\ \E o \in Outcomes("market", call[r].arg) :
        LET failed == [is |-> "failure", for |-> call[r].arg]
            stored == [agent EXCEPT ![call[r].target].marketData = o]
            s == stored[This(r)]
        IN  /\ UNCHANGED thisState
            /\ Step(r, OnChainGate(
                   IF o = Rejection
                   THEN [agent EXCEPT ![This(r)].marketData = failed]
                   ELSE IF s.marketData.is = "undefined"
                   THEN \* line 817 reads success of undefined, line 857 catches
                        [stored EXCEPT ![This(r)].marketData = failed]
                   ELSE IF s.marketData.is = "success"
                           /\ (~Truthy(s.tokenData) \/ ~s.tokenData.name)
                   THEN [stored EXCEPT ![This(r)].tokenData =
                            [is |-> "market", for |-> s.contractAddress, name |-> TRUE]]
                   ELSE stored,
                   This(r)))

\* lines 866-888: analyzeOnChainMetrics has settled
OnChainReturns(r) ==
    /\ call[r].pc = "onchain"
    /\ \E o \in Outcomes("onchain", call[r].arg) :
        LET failed == [is |-> "failure", for |-> call[r].arg, market_data |-> Null]
            stored == [agent EXCEPT ![call[r].target].onChainData = o]
            s == stored[This(r)]
        IN  /\ UNCHANGED thisState
            /\ Step(r, SocialGate(
                   IF o = Rejection
                   THEN [agent EXCEPT ![This(r)].onChainData = failed]
                   ELSE IF s.marketData.is = "success"
                   THEN IF Truthy(s.onChainData)
                        THEN [stored EXCEPT ![This(r)].onChainData.market_data =
                                 s.marketData]
                        ELSE \* line 873 sets a property of null, line 882 catches
                             [stored EXCEPT ![This(r)].onChainData = failed]
                   ELSE stored,
                   This(r)))

\* lines 894-907: analyzeSocialSentiment has settled
SocialReturns(r) ==
    /\ call[r].pc = "social"
    /\ \E o \in Outcomes("social", call[r].arg) :
        /\ UNCHANGED thisState
        /\ Step(r, IF o = Rejection THEN OuterCatch(agent)
                   ELSE SynthesisGate([agent EXCEPT ![call[r].target].socialData = o],
                                      This(r)))

\* lines 499-662: what assessInvestmentPotential returns once llm.predict has
\* settled with o
Assessment(o) ==
    IF o.is = "json"
    THEN [is |-> "report",
          keys |-> (IF o.keys = "all" THEN ReportFields
                    ELSE ReportFields \ {"smart_contract_risk", "confidence_score"})
                   \cup {"timestamp", "market_summary", "has_trading_prompt"}]
    ELSE [is |-> "fallback",
          keys |-> ReportFields \cup {"error", "token_info", "has_trading_prompt"}]

\* lines 499-662 and 921-1012: llm.predict has settled
LlmReturns(r) ==
    /\ call[r].pc = "llm"
    /\ \E o \in Outcomes("llm", call[r].arg) :
        LET stored == [agent EXCEPT ![call[r].target].finalAnalysis =
                          Assessment(o)]
            s == stored[This(r)]
        IN  /\ UNCHANGED thisState
            /\ Step(r, IF ~Truthy(s.finalAnalysis)
                       THEN \* line 929 reads token_info of null
                            OuterCatch(stored)
                       ELSE IF s.marketData.is = "success"
                       THEN ReturnAnalysis(
                                [stored EXCEPT ![This(r)].finalAnalysis.keys =
                                    @ \cup {"token_info", "transaction_analysis",
                                            "raw_transactions"}],
                                This(r))
                       ELSE ReturnAnalysis(stored, This(r)))

BotNext ==
    \E r \in Requests :
        \/ ProcessInitialQuery(r)
        \/ InputAnalyzed(r)
        \/ ContractReturns(r)
        \/ MarketReturns(r)
        \/ OnChainReturns(r)
        \/ SocialReturns(r)
        \/ LlmReturns(r)

Bot == Init /\ [][BotNext]_vars

----------------------------------------------------------------------------
(* Properties of processInitialQuery *)

ForContractAddress(r) ==
    /\ adapterCalls[r].query # Null
    /\ adapterCalls[r].query.type = "contract_address"

\* C19: for a contract-address query all four adapters are started before
\* any of them has completed, so that a slow adapter does not delay the start
\* of the others
C19_EachAdapterStartedBeforeAnyCompletes ==
    \A r \in Requests :
        ForContractAddress(r) /\ adapterCalls[r].completed # {}
            => adapterCalls[r].started = Adapters

Threw(r) == call[r].pc = "threw"
HasReturned(r) == call[r].pc = "returned"

\* C20: whatever the adapters and the LLM do -- failure envelopes, rejections,
\* a rejected or unparseable LLM answer -- a call of processInitialQuery never
\* throws, and when it ends it has returned an object
C20_NeverThrowsReturnsAnObject ==
    \A r \in Requests :
        /\ ~Threw(r)
        /\ HasReturned(r) => Truthy(call[r].value)

\* one call ended in the catch of processInitialQuery and another with the
\* fallback report of assessInvestmentPotential
C20_Witness ==
    \E r, q \in Requests :
        /\ HasReturned(r) /\ call[r].value.is = "failed"
        /\ HasReturned(q) /\ call[q].value.is = "fallback"

----------------------------------------------------------------------------
(* Properties of the failure handling of the adapters *)

\* the latest attempt failed because what arrived had an unexpected shape
StructuralFailure ==
    /\ lastError # NoError
    /\ "response" \in lastError.shape.message

\* C23: a response that arrives with an unexpected shape is not retried: the
\* upstream is called exactly once by the withRetry call that met it
C23_StructuralFailureNotRetried ==
    StructuralFailure => calls = 1

CalledWithoutKey == caller = "holders" /\ ~env.HELIUS_API_KEY

\* C24: called without HELIUS_API_KEY, fetchAllTokenHolders has returned
\* {success: false, error} at once: no request was sent, withRetry was not
\* entered, nothing was slept and nothing was thrown
C24_MissingKeyFailsImmediately ==
    CalledWithoutKey =>
        /\ hpc = "done"
        /\ DOMAIN result = {"success", "error"}
        /\ result.success = FALSE
        /\ result.error = "HELIUS_API_KEY is required for this operation"
        /\ rpc = "idle" /\ calls = 0 /\ sleeps = 0
        /\ outstanding = 0 /\ lastRequested = 0 /\ obtained = <<>>
        /\ pauses = 0

C24_Witness == CalledWithoutKey /\ hpc = "done" /\ ~result.success

\* fetchAllTokenHolders was called with the key present and the options of
\* the basic mode
BasicCall ==
    /\ caller \in {"holders", "basic", "fallback"}
    /\ env.HELIUS_API_KEY
    /\ holderOptions.maxPages = 1 /\ holderOptions.pageSize <= 10

GotAccounts ==
    \E i \in 1 .. Len(obtained) :
        obtained[i].valid /\ Len(obtained[i].accounts) > 0

\* C28: in basic mode only page 1 of the primary provider is requested, by
\* withRetry, and the pagination loop is never entered; the RPC fallback is
\* called only after the primary attempt has failed or brought no accounts;
\* when both fail the call returns the failed_with_partial_data envelope
C28_BasicModeOnePageThenFallback ==
    BasicCall =>
        /\ hpc \notin {"fetching", "pacing"} /\ pauses = 0
        /\ lastRequested \in {0, 1}
        /\ Len(obtained) <= 1
        /\ \A i \in 1 .. Len(obtained) : obtained[i].page = 1
        /\ outstanding > 0 => caller = "basic" /\ rpc = "calling"
                              /\ options = BasicModeOptions
        /\ (caller = "fallback" \/ (hpc = "done" /\ result.data_source # "helius_basic"))
               => ~GotAccounts
        /\ (hpc = "done" /\ ~result.success)
               => result.data_source = "failed_with_partial_data"

C28_Witness ==
    /\ BasicCall /\ hpc = "done" /\ ~result.success
    /\ lastRequested = 1 /\ calls > 0

\* the sum of the amounts of the records with an owner on the answered pages
RECURSIVE OwnedAmountOn(_)
OwnedAmountOn(answers) ==
    IF answers = <<>> THEN 0
    ELSE SumAmounts(SelectSeq(Head(answers).accounts, LAMBDA a : a.owner # ""))
         + OwnedAmountOn(Tail(answers))

\* C30: a record without owner is skipped and does not fail the collection:
\* it enters neither the owner set, nor the record list, nor the supply sum,
\* so every record counted has an owner, and a call fails only because
\* withRetry gave up or a response had no valid structure
C30_OwnerlessRecordsSkipped ==
    /\ "" \notin allHolders
    /\ \A i \in 1 .. Len(allAccounts) : allAccounts[i].owner # ""
    /\ allHolders = OwnersOn(obtained)
    /\ Len(allAccounts) = OwnedItemsOn(obtained)
    /\ totalTokenSupply = OwnedAmountOn(obtained)
    /\ (hpc = "done" /\ ~result.success /\ env.HELIUS_API_KEY /\ env.validAddress)
           => \/ rpc = "threw"
              \/ obtained # <<>> /\ ~obtained[Len(obtained)].valid

\* a collection that met a record without owner ended with success
C30_Witness ==
    /\ hpc = "done" /\ result.success
    /\ ItemsOn(obtained) > OwnedItemsOn(obtained)
    /\ totalTokenSupply > 0

\* C22: every object processInitialQuery returns has the eight report fields,
\* whether the LLM call succeeds, fails or answers with JSON that lacks some
\* of them, and also when the adapters gathered no usable data
C22_ReturnedReportHasAllFields ==
    \A r \in Requests :
        HasReturned(r) => ReportFields \subseteq call[r].value.keys

\* what call r gave to the adapters it started
GivenOnly(r, adapters, arg) ==
    /\ adapterCalls[r].started = adapters
    /\ adapterCalls[r].given = {<<a, arg>> : a \in adapters}

ForProjectName(r) ==
    /\ adapterCalls[r].query # Null
    /\ adapterCalls[r].query.type = "project_name"

Alone(r) == \A other \in Requests \ {r} : call[other].pc = "idle"

LiquiditySettledWith(success) ==
    /\ sub.liquidity_metrics.status = "fulfilled"
    /\ sub.liquidity_metrics.value.success = success

\* C27: analyzeLiquidityMetrics queries its sources in list order, a later
\* one only after every earlier one, passes over a source that answers with
\* an empty or missing pair list, and uses the first source that returns
\* non-empty pair data
C27_FirstSourceWithPairsUsed ==
    /\ \A i \in 1 .. Len(asked) : asked[i].source = <<"dexscreener", "solanafm">>[i]
    /\ LiquiditySettledWith(TRUE) =>
           /\ asked[Len(asked)].answer = "pairs"
           /\ sub.liquidity_metrics.value.source = asked[Len(asked)].source

\* an envelope: a boolean success field, and an error whenever success is false
IsEnvelope(v) ==
    /\ "success" \in DOMAIN v
    /\ v.success \in BOOLEAN
    /\ ~v.success => "error" \in DOMAIN v

\* C21: what every source adapter returns, on its success and on its failure
\* path, is an envelope with a boolean success field and, when success is
\* false, an error
C21_AdaptersReturnEnvelopes ==
    /\ \A s \in SubAnalyses : sub[s].status = "fulfilled" => IsEnvelope(sub[s].value)
    /\ mpc = "done" => IsEnvelope(metrics)


----------------------------------------------------------------------------
(* Properties of analyzeSocialSentiment *)

SentimentSettled == fn = "analyzeSocialSentiment" /\ applied
Generated(v) == "source" \in DOMAIN v /\ v.source = "generated"

\* the Twitter analysis failed or found no tweet
NoTweets(answers) ==
    \/ answers.twitter.is \in {"throws", "error"}
    \/ answers.twitter.total_tweets = 0

\* neither the argument nor the market data gives a name or a symbol
NothingToSearchWith(info, answers) ==
    /\ info.type = "object"
    /\ info.name \in {"", " "}
    /\ info.symbol \in {"", " "}
    /\ \/ info.address = ""
       \/ ~answers.dex.success
       \/ answers.dex.token_name = "" /\ answers.dex.token_symbol = ""

C26_ScoreBlendsCappedPriceChange ==
    (SentimentSettled /\ "twitter" \in DOMAIN output) =>
        LET clamp(x, low, high) == IF x < low THEN low ELSE IF x > high THEN high ELSE x
            twitterScore == output.twitter.sentiment_score
            moved == /\ "market_data" \in DOMAIN output
                     /\ ~output.market_data.price_change_24h.nan
                     /\ output.market_data.price_change_24h.pct # 0
            priceChange24h == output.market_data.price_change_24h.pct
        IN  /\ ~Generated(output)
            /\ output.overall_sentiment_score =
                   IF moved
                   THEN clamp(twitterScore + clamp(2 * priceChange24h, 0 - 50, 50),
                              0 - 100, 100)
                   ELSE twitterScore
            /\ output.overall_sentiment_score \in (0 - 100) .. 100

\* a price rise of 60 per cent moves a Twitter score of -0.35 by half a point only
C26_Witness ==
    /\ SentimentSettled
    /\ "twitter" \in DOMAIN output
    /\ "market_data" \in DOMAIN output
    /\ output.market_data.price_change_24h = [nan |-> FALSE, pct |-> 60]
    /\ output.twitter.sentiment_score = 0 - 35
    /\ output.overall_sentiment_score = 15


----------------------------------------------------------------------------
(* Properties of a withRetry call that succeeds *)

\* C37: withRetry returns what the first successful attempt returned and does
\* not invoke the operation again: when the k-th invocation is the first to
\* succeed, k <= maxRetries + 1, the operation has been invoked k times, k - 1
\* sleeps have been made and no error is raised; the counts stay as they are
\* until another withRetry call begins
C37_FirstSuccessIsReturned ==
    /\ [](rpc = "returned" =>
            /\ calls = Len(failures) + 1
            /\ calls <= options.maxRetries + 1
            /\ sleeps = calls - 1
            /\ outcome.kind = "returned"
            /\ outcome.error = NoError)
    /\ [][rpc = "returned" =>
            \/ rpc' = "top" /\ calls' = 0
            \/ calls' = calls /\ sleeps' = sleeps /\ rpc' = rpc /\ outcome' = outcome]_vars

\* the third invocation succeeded after two failures and two sleeps
C37_Witness ==
    /\ rpc = "returned"
    /\ calls = 3
    /\ sleeps = 2
    /\ Len(failures) = 2
    /\ outcome.kind = "returned"


----------------------------------------------------------------------------
(* Termination of the pagination *)

\* C33: a call that pages with maxPages = m > 0, each page fetched by
\* withRetry with r retries, returns an envelope, and by then at most
\* m * (r + 1) page requests have been sent, whatever the upstream answers
C33_ReturnsWithinPageBudget ==
    /\ [](hpc # "idle" =>
            requests <= holderOptions.maxPages * (PageOptions.maxRetries + 1))
    /\ [](hpc = "done" => "success" \in DOMAIN result /\ outstanding = 0)
    /\ <>[](hpc = "done")

\* page 1 came on the last attempt, page 2 never: every request the two
\* pages allow was sent before the call returned
C33_Witness ==
    /\ hpc = "done"
    /\ holderOptions.maxPages = 2
    /\ requests = 2 * (PageOptions.maxRetries + 1)
    /\ Len(obtained) = 1


----------------------------------------------------------------------------
(* Properties of the pair selection of fetchDexScreenerData *)

\* the upstream answered with pairs, none of them with the requested token
NoRelevantPair ==
    /\ fn = "fetchDexScreenerData"
    /\ Len(input.pairs) > 0
    /\ \A i \in 1 .. Len(input.pairs) :
           Requested \notin {input.pairs[i].baseToken, input.pairs[i].quoteToken}

\* C34: when the pair list is not empty and no pair has the requested token
\* as base or as quote, fetchDexScreenerData returns {success: false,
\* error: 'No relevant trading pairs found for this token'}
C34_NoRelevantPairReported ==
    (NoRelevantPair /\ applied) =>
        output = [success |-> FALSE,
                  error |-> "No relevant trading pairs found for this token"]


----------------------------------------------------------------------------
(* Properties of the object analyzeOnChainMetrics returns *)

\* sub-analysis s has returned something other than a failure envelope
Succeeded(s) ==
    /\ sub[s].status = "fulfilled"
    /\ "success" \in DOMAIN sub[s].value => sub[s].value.success

\* C40: analyzeOnChainMetrics returns success: true only if at least one of
\* the three sub-analyses succeeded, and a top-level market_data is taken
\* only from a liquidity result that succeeded
C40_SuccessNeedsASuccessfulPart ==
    mpc = "done" =>
        /\ metrics.success => \E s \in SubAnalyses : Succeeded(s)
        /\ "market_data" \in DOMAIN metrics => Succeeded("liquidity_metrics")


----------------------------------------------------------------------------
(* Properties of the gathered data during the synthesis *)

\* C31: once assessInvestmentPotential has been started the adapter results
\* held in the bot state, the arrays nested in them included, are not
\* modified again: the socials array of socialData is afterwards what it
\* was when the LLM answered
C31_GatheredDataUnchangedBySynthesis ==
    (fn = "assessInvestmentPotential" /\ applied
        /\ input.socialData.links.socials = "links")
        => output.arrays.links = input.arrays.links


----------------------------------------------------------------------------
(* Properties of the state of a query *)

\* nothing has been gathered, classified or said in AgentState s
Fresh(s) ==
    /\ s.is = "AgentState"
    /\ \A f \in {"contractData", "tokenData", "socialData", "onChainData", "finalAnalysis"} :
           s[f] = Null
    /\ s.marketData.is = "undefined"
    /\ s.inputType = "" /\ s.contractAddress = "" /\ s.projectName = ""
    /\ s.conversationHistory = <<>>

\* C32: a call of processInitialQuery starts from an AgentState of its own
\* that shows nothing of the queries before it on the same bot: the step
\* that starts call r makes a new object with every field as the constructor
\* leaves it, points this.state to it and leaves the states of the earlier
\* calls as they are
C32_QueryStartsFromFreshState ==
    [][\A r \in Requests :
          (call[r].pc = "idle" /\ call'[r].pc # "idle") =>
              /\ agent[r] = Null
              /\ Fresh(agent'[r])
              /\ thisState'[session'[r]] = r
              /\ \A earlier \in Requests \ {r} : agent'[earlier] = agent[earlier]]_vars

\* the second query has just started on a bot whose first query has returned
\* a report and left its history
C32_Witness ==
    /\ call[1].pc = "returned" /\ call[1].value.is = "report"
    /\ agent[1].conversationHistory = <<"user", "assistant">>
    /\ Truthy(agent[1].contractData)
    /\ call[2].pc = "input"
    /\ session[1] = session[2]
    /\ This(2) = 2
    /\ Fresh(agent[2])


----------------------------------------------------------------------------
(* Properties of analyze requests in flight together *)

\* no other request received so far carries the session_id of request r
OwnSession(r) ==
    /\ session[r] # ""
    /\ \A other \in Requests \ {r} : session[other] # session[r]

\* C36: requests with different session_ids never share a bot state: a
\* request whose session_id no other request carries reads and writes only the
\* AgentState it made, gives its adapters only what its own query names, and
\* returns the report of its own state; two requests of one session_id are not
\* isolated in this way (C36_Witness)
C36_DifferentSessionsShareNoState ==
    \A r \in Requests :
        OwnSession(r) =>
            /\ This(r) = r
            /\ call[r].target \in {0, r}
            /\ \A g \in adapterCalls[r].given : g[2] = adapterCalls[r].query.value
            /\ \A other \in Requests \ {r} :
                   session[other] # "" => This(other) # r /\ call[other].target # r
            /\ HasReturned(r) /\ call[r].value.is # "failed"
                   => call[r].value = agent[r].finalAnalysis

\* two requests of one session_id: the second replaced the state of the bot
\* while the first was suspended, the first went on in the state of the
\* second, fetched for the address of the second query and returned the report
\* of the second state, leaving its own state without one
C36_Witness ==
    /\ session[1] = "s1" /\ session[2] = "s1"
    /\ adapterCalls[1].query.value = "MintA"
    /\ adapterCalls[2].query.value = "MintB"
    /\ {<<"market", "MintB">>, <<"onchain", "MintB">>, <<"social", "MintB">>}
           \subseteq adapterCalls[1].given
    /\ HasReturned(1)
    /\ call[1].value.is = "report"
    /\ call[1].value = agent[2].finalAnalysis
    /\ agent[1].finalAnalysis = Null
    /\ Truthy(agent[2].onChainData) /\ agent[2].onChainData.for = "MintB"


----------------------------------------------------------------------------
(* The routes of server/routes/api.js: requests of several sessions, each   *)
(* handler suspended at its await while other requests are handled          *)

\* what a request body can hold: "" stands for a field that is missing or empty
SessionIdsSent == SessionIds \cup {""}
QueriesSent == {"", "text", "not a string"}
DecisionsSent == {"", "yes", "no", "not a string"}
QuestionsSent == {"", "text"}

\* lines 10-16: getBotInstance; a bot leaves its constructor with this.state
\* null (researchBot.js line 65)
GetBotInstance(map, made, sessionId) ==
    IF map[sessionId] = 0
    THEN [botInstances |-> [map EXCEPT ![sessionId] = Len(made) + 1],
          bots |-> Append(made, [state |-> Null]),
          bot |-> Len(made) + 1]
    ELSE [botInstances |-> map, bots |-> made, bot |-> map[sessionId]]

EntryKept(map, sessionId) == map

\* lines 57 and 97: delete botInstances[session_id]
Deleted(map, sessionId) == [map EXCEPT ![sessionId] = 0]

\* researchBot.js lines 23-39: new AgentState(), its conversationHistory
EmptyHistory == [conversationHistory |-> <<>>]

AddQuestionOnly(made, bot) ==
    [made EXCEPT ![bot].state.conversationHistory = @ \o <<"user">>]

\* researchBot.js lines 46-52, called for 'user' and then for 'assistant'
\* with no await in between (lines 1005-1006 and 1089-1090)
AddExchange(made, bot) ==
    [made EXCEPT ![bot].state.conversationHistory = @ \o <<"user", "assistant">>]

\* res.status(status).json(body)
Answered(request, status, body) ==
    [request EXCEPT !.pc = "answered", !.status = status, !.body = body]

\* the requests are numbered in the order they are received
Received(n) ==
    /\ pending[n].pc = "idle"
    /\ \A earlier \in ApiRequests : earlier < n => pending[earlier].pc # "idle"

\* lines 19-28 and researchBot.js lines 769-779: POST /analyze up to the
\* first await of processInitialQuery
PostAnalyze(n) ==
    /\ Received(n)
    /\ \E session_id \in SessionIdsSent, query \in QueriesSent :
        LET request == [NoRequest EXCEPT !.kind = "analyze",
                                         !.session_id = session_id, !.carries = query]
        IN  IF query = "" \/ session_id = ""
            THEN /\ pending' = [pending EXCEPT ![n] =
                        Answered(request, 400, "Query and session_id are required")]
                 /\ UNCHANGED <<botInstances, bots, analyzed>>
            ELSE LET got == GetBotInstance(botInstances, bots, session_id)
                 IN  /\ botInstances' = got.botInstances
                     /\ bots' = [got.bots EXCEPT ![got.bot].state = EmptyHistory]
                     /\ pending' = [pending EXCEPT ![n] =
                            [request EXCEPT !.bot = got.bot, !.pc = "awaiting"]]
                     /\ analyzed' = [analyzed EXCEPT ![session_id] = TRUE]
    /\ UNCHANGED exceptApiVars

\* lines 28-33 and researchBot.js lines 779-1021: processInitialQuery returns
\* its analysis after adding the exchange to the history of this.state, or
\* the object of its catch, which adds nothing; a query that is no string
\* makes analyzeUserInput reject (researchBot.js lines 84 and 114-120: match
\* fails, and the catch calls trim on it again)
AnalyzeAnswered(n) ==
    /\ pending[n].kind = "analyze" /\ pending[n].pc = "awaiting"
    /\ \E ending \in {"analysis", "failed"} :
        /\ pending[n].carries = "not a string" => ending = "failed"
        /\ bots' = IF ending = "analysis" THEN AddExchange(bots, pending[n].bot) ELSE bots
        /\ pending' = [pending EXCEPT ![n] = Answered(@, 200, ending)]
    /\ UNCHANGED <<botInstances, analyzed>>
    /\ UNCHANGED exceptApiVars

\* lines 45-52 and 71-78: the tests that POST /trading-decision and POST
\* /followup make before they call the bot
CallBotOfSession(n, request, required) ==
    IF request.carries = "" \/ request.session_id = ""
    THEN /\ pending' = [pending EXCEPT ![n] = Answered(request, 400, required)]
         /\ UNCHANGED <<botInstances, bots>>
    ELSE LET got == GetBotInstance(botInstances, bots, request.session_id)
         IN  /\ botInstances' = got.botInstances
             /\ bots' = got.bots
             /\ pending' = [pending EXCEPT ![n] =
                    IF got.bots[got.bot].state = Null
                    THEN Answered(request, 400, "No active analysis session")
                    ELSE [request EXCEPT !.bot = got.bot, !.pc = "awaiting"]]

\* lines 41-54: POST /trading-decision up to its await
PostTradingDecision(n) ==
    /\ Received(n)
    /\ \E session_id \in SessionIdsSent, decision \in DecisionsSent :
        CallBotOfSession(n, [NoRequest EXCEPT !.kind = "trading-decision",
                                              !.session_id = session_id,
                                              !.carries = decision],
                         "Decision and session_id are required")
    /\ UNCHANGED analyzed
    /\ UNCHANGED exceptApiVars

\* lines 54-63 and researchBot.js lines 1030-1050: processTradingDecision has
\* settled; a decision that is no string has no toLowerCase, the call rejects
\* and line 57 is not reached
TradingDecisionAnswered(n) ==
    /\ pending[n].kind = "trading-decision" /\ pending[n].pc = "awaiting"
    /\ IF pending[n].carries = "not a string"
       THEN /\ pending' = [pending EXCEPT ![n] =
                   Answered(@, 500, "decision.toLowerCase is not a function")]
            /\ UNCHANGED <<botInstances, analyzed>>
       ELSE /\ botInstances' = Deleted(botInstances, pending[n].session_id)
            /\ analyzed' = [analyzed EXCEPT ![pending[n].session_id] = FALSE]
            /\ pending' = [pending EXCEPT ![n] = Answered(@, 200, "result")]
    /\ UNCHANGED bots
    /\ UNCHANGED exceptApiVars

\* lines 67-80: POST /followup up to its await
PostFollowup(n) ==
    /\ Received(n)
    /\ \E session_id \in SessionIdsSent, question \in QuestionsSent :
        CallBotOfSession(n, [NoRequest EXCEPT !.kind = "followup",
                                              !.session_id = session_id,
                                              !.carries = question],
                         "Question and session_id are required")
    /\ UNCHANGED analyzed
    /\ UNCHANGED exceptApiVars

\* lines 80-81 and researchBot.js lines 1082-1095: handleFollowupQuestion has
\* returned its answer or the message of its catch, processFollowup adds the
\* exchange to the history of this.state
FollowupAnswered(n) ==
    /\ pending[n].kind = "followup" /\ pending[n].pc = "awaiting"
    /\ bots' = AddExchange(bots, pending[n].bot)
    /\ pending' = [pending EXCEPT ![n] = Answered(@, 200, "result")]
    /\ UNCHANGED <<botInstances, analyzed>>
    /\ UNCHANGED exceptApiVars

\* lines 89-98: POST /reset
PostReset(n) ==
    /\ Received(n)
    /\ \E session_id \in SessionIdsSent :
        LET request == [NoRequest EXCEPT !.kind = "reset", !.session_id = session_id]
        IN  IF session_id = ""
            THEN /\ pending' = [pending EXCEPT ![n] =
                        Answered(request, 400, "Session ID is required")]
                 /\ UNCHANGED <<botInstances, analyzed>>
            ELSE /\ botInstances' = Deleted(botInstances, session_id)
                 /\ analyzed' = [analyzed EXCEPT ![session_id] = FALSE]
                 /\ pending' = [pending EXCEPT ![n] =
                        Answered(request, 200, "Session reset successfully")]
    /\ UNCHANGED bots
    /\ UNCHANGED exceptApiVars

ApiNext ==
    \E n \in ApiRequests :
        \/ PostAnalyze(n)
        \/ AnalyzeAnswered(n)
        \/ PostTradingDecision(n)
        \/ TradingDecisionAnswered(n)
        \/ PostFollowup(n)
        \/ FollowupAnswered(n)
        \/ PostReset(n)

Api == Init /\ [][ApiNext]_vars


----------------------------------------------------------------------------
(* Properties of the routes *)

\* request n is received in this step
ReceivedNow(n) == pending[n].pc = "idle" /\ pending'[n].pc # "idle"

\* request n is answered in this step
AnsweredNow(n) == pending[n].pc # "answered" /\ pending'[n].pc = "answered"

\* the call of the bot that request n awaited settles in this step
Completes(n, kind) ==
    /\ pending[n].kind = kind
    /\ pending[n].pc = "awaiting" /\ pending'[n].pc = "answered"

\* C38: a trading-decision or followup request that is answered with status
\* 400, for a missing field or for 'No active analysis session', leaves the
\* session map as it was: no entry is added and none is removed
C38_RejectedRequestLeavesSessionMap ==
    [][\A n \in ApiRequests :
          /\ AnsweredNow(n)
          /\ pending'[n].kind \in {"trading-decision", "followup"}
          /\ pending'[n].status = 400
          => botInstances' = botInstances]_vars

\* C35: the step that answers a trading-decision request with its result, or
\* a reset request with success, removes the entry of its session_id; and a
\* trading-decision or followup request that carries its field and a
\* session_id for which no analyze request has been received since the entry
\* was last removed is answered at once with 400 'No active analysis session'
C35_NoSessionAfterDecisionOrReset ==
    /\ [][\A n \in ApiRequests :
             /\ AnsweredNow(n)
             /\ pending'[n].kind \in {"trading-decision", "reset"}
             /\ pending'[n].status = 200
             => botInstances'[pending'[n].session_id] = 0]_vars
    /\ [][\A n \in ApiRequests :
             /\ ReceivedNow(n)
             /\ pending'[n].kind \in {"trading-decision", "followup"}
             /\ pending'[n].carries # "" /\ pending'[n].session_id # ""
             /\ ~analyzed[pending'[n].session_id]
             => /\ pending'[n].pc = "answered"
                /\ pending'[n].status = 400
                /\ pending'[n].body = "No active analysis session"]_vars

\* an analysis was made for s1, the trading decision for s1 was processed,
\* and the followup question that s1 sent afterwards was rejected
C35_Witness ==
    /\ pending[1].kind = "analyze" /\ pending[1].session_id = "s1"
    /\ pending[1].status = 200 /\ pending[1].body = "analysis"
    /\ pending[2].kind = "trading-decision" /\ pending[2].session_id = "s1"
    /\ pending[2].status = 200
    /\ pending[3].kind = "followup" /\ pending[3].session_id = "s1"
    /\ pending[3].carries = "text"
    /\ pending[3].status = 400 /\ pending[3].body = "No active analysis session"

Alternates(history) ==
    \A i \in 1..Len(history) :
        history[i] = IF i % 2 = 1 THEN "user" ELSE "assistant"

\* every conversationHistory has even length and alternates 'user',
\* 'assistant', starting with 'user'
HistoriesAlternate ==
    \A b \in 1..Len(bots) :
        bots[b].state # Null =>
            /\ Len(bots[b].state.conversationHistory) % 2 = 0
            /\ Alternates(bots[b].state.conversationHistory)

HistoryGrowsBy(n, exchange) ==
    bots'[pending[n].bot].state.conversationHistory =
        bots[pending[n].bot].state.conversationHistory \o exchange

\* processInitialQuery starts with an empty history, and each completed
\* processFollowup appends exactly one pair
EmptyAtStartPairPerFollowup ==
    /\ [][\A n \in ApiRequests :
             ReceivedNow(n) /\ pending'[n].kind = "analyze" /\ pending'[n].pc = "awaiting"
                 => bots'[pending'[n].bot].state.conversationHistory = <<>>]_vars
    /\ [][\A n \in ApiRequests :
             Completes(n, "followup") => HistoryGrowsBy(n, <<"user", "assistant">>)]_vars

\* the statement of C39 as the specification has it: every completed
\* processInitialQuery leaves exactly one pair
C39_Original ==
    /\ []HistoriesAlternate
    /\ EmptyAtStartPairPerFollowup
    /\ [][\A n \in ApiRequests :
             Completes(n, "analyze") => HistoryGrowsBy(n, <<"user", "assistant">>)]_vars

\* C39: conversationHistory always has even length and alternates 'user',
\* 'assistant' starting with 'user'; processInitialQuery starts from an empty
\* history and, when it completes, has added exactly one pair if it returns
\* its analysis and nothing if it returns the object of its catch; each
\* completed processFollowup appends exactly one pair
C39_HistoryAlternatesPairPerAnswer ==
    /\ []HistoriesAlternate
    /\ EmptyAtStartPairPerFollowup
    /\ [][\A n \in ApiRequests :
             Completes(n, "analyze") =>
                 HistoryGrowsBy(n, IF pending'[n].body = "analysis"
                                   THEN <<"user", "assistant">> ELSE <<>>)]_vars

\* the analysis for s1 and the followup question of s1 left two pairs in the
\* history of the bot of s1; the query of s2, which is no string, ended in the
\* catch and left the history of the bot of s2 empty
C39_Witness ==
    /\ pending[1].kind = "analyze" /\ pending[1].session_id = "s1"
    /\ pending[1].body = "analysis"
    /\ pending[2].kind = "analyze" /\ pending[2].session_id = "s2"
    /\ pending[2].carries = "not a string"
    /\ pending[2].status = 200 /\ pending[2].body = "failed"
    /\ pending[3].kind = "followup" /\ pending[3].session_id = "s1"
    /\ pending[3].status = 200
    /\ bots[1].state.conversationHistory = <<"user", "assistant", "user", "assistant">>
    /\ bots[2].state.conversationHistory = <<>>

====
